---- MODULE Spec2Model ----
(***************************************************************************)
(* Model of the postal-code lookup tool (tishizuk/postal_code).            *)
(*                                                                         *)
(* Strings are sequences of one-character tokens.  An ASCII character is   *)
(* itself ("1", "-", "a"); any other character is written as its Unicode   *)
(* code point, "uXXXX" ("u2212" is the minus sign, "u6771" is 東).         *)
(***************************************************************************)
EXTENDS Integers, Sequences, FiniteSets, TLC

VARIABLES cache, log, last, search, session, calc, db

vars == <<cache, log, last, search, session, calc, db>>

(***************************************************************************)
(* Bounds of the model and constants of the program.                       *)
(***************************************************************************)
\* entries the lookup cache may hold before it has to be cleared
MaxCached == 2

\* len(clean_postal_code) != 7
PostalLen == 7

\* st.text_input(..., max_chars=8) of the postal-code page
PostalMaxChars == 8

(***************************************************************************)
(* Characters and the str methods the code uses.                           *)
(***************************************************************************)
AsciiDigits == {"0", "1", "2", "3", "4", "5", "6", "7", "8", "9"}

\* U+FF10..U+FF19: not ASCII, yet str.isdigit() is True for them
FullWidthDigits ==
  {"uff10", "uff11", "uff12", "uff13", "uff14",
   "uff15", "uff16", "uff17", "uff18", "uff19"}

\* characters str.strip(), str.split() and the regex class \s treat as space
WhitespaceChars == {" ", "u3000"}

\* s.replace(c, "") for a one-character c
replace_char(s, c) == SelectSeq(s, LAMBDA x : x # c)

\* s.isdigit(): non-empty and every character a (Unicode) digit
isdigit(s) ==
  /\ Len(s) > 0
  /\ \A i \in 1..Len(s) : s[i] \in AsciiDigits \cup FullWidthDigits

(***************************************************************************)
(* The remote lookup service (zipcloud) as the client sees it.             *)
(***************************************************************************)
base_url == "https://zipcloud.ibsnet.co.jp/api/search"

\* JSON null as a field value (a token no string holds)
JsonNull == <<"null">>

\* Python's None as a return value
None == [none |-> TRUE]

\* 東京都 / 千代田区 / 千代田, with readings
Result_Chiyoda ==
  [address1 |-> <<"u6771", "u4eac", "u90fd">>,
   address2 |-> <<"u5343", "u4ee3", "u7530", "u533a">>,
   address3 |-> <<"u5343", "u4ee3", "u7530">>,
   kana1 |-> <<"uff84", "uff73">>,
   kana2 |-> <<"uff81", "uff96">>,
   kana3 |-> <<"uff81">>]

\* 大阪府 / 大阪市: address3 and the readings are missing
Result_Osaka ==
  [address1 |-> <<"u5927", "u962a", "u5e9c">>,
   address2 |-> <<"u5927", "u962a", "u5e02">>]

\* 東京都 / null / 港: a null field
Result_NullCity ==
  [address1 |-> <<"u6771", "u4eac", "u90fd">>,
   address2 |-> JsonNull,
   address3 |-> <<"u6e2f">>]

\* an element of the results array that is no object
NotADict == [null |-> TRUE]

\* requests.get raised (ConnectionError, Timeout)
TransportError == [kind |-> "exception"]

HttpResponse(code, body) == [kind |-> "response", status_code |-> code, body |-> body]

\* a body that is no JSON; `raises` is the class response.json() raises, which
\* depends on the installed requests: requests.exceptions.JSONDecodeError is a
\* RequestException from 2.27 on, a plain ValueError/json.JSONDecodeError before
InvalidJson(cls) == [json |-> "invalid", raises |-> cls]

\* a JSON body that is an array, not an object
JsonArray == [json |-> "array"]

JsonObject(data) == [json |-> "object", data |-> data]

ResultsList(rs) == [list |-> rs]

ResultsNull == [null |-> TRUE]

\* what the service may answer to one GET
ZipResponses ==
  { TransportError,
    HttpResponse(500, InvalidJson("RequestException")),
    HttpResponse(200, InvalidJson("RequestException")),
    HttpResponse(200, InvalidJson("JSONDecodeError")),
    HttpResponse(200, JsonArray),
    HttpResponse(200, JsonObject([status |-> 200, results |-> ResultsList(<<Result_Osaka, Result_Chiyoda>>)])),
    HttpResponse(200, JsonObject([status |-> 200, results |-> ResultsList(<<Result_NullCity>>)])),
    HttpResponse(200, JsonObject([status |-> 200, results |-> ResultsNull])),
    HttpResponse(200, JsonObject([results |-> ResultsList(<<Result_Chiyoda>>)])) }

\* no request was made
NoResponse == [kind |-> "none"]

(***************************************************************************)
(* get_address_by_postal_code (postal_data.py; postal_data_clean.py holds  *)
(* the same text).                                                         *)
(***************************************************************************)
\* a normalisation that forgets the minus sign
clean_hyphen_only(postal_code) == replace_char(postal_code, "-")

\* postal_code.replace("-", "").replace("−", "")
clean_postal_code(postal_code) ==
  replace_char(replace_char(postal_code, "-"), "u2212")

\* a format check that lets a code through when either test passes
format_ok_either(clean) == isdigit(clean) \/ Len(clean) = PostalLen

\* the format check: the call goes on iff this holds
format_ok(clean) == isdigit(clean) /\ Len(clean) = PostalLen

\* result.get(key, "")
dict_get(result, key) == IF key \in DOMAIN result THEN result[key] ELSE <<>>

\* how an f-string renders a value: None becomes the text "None"
fstr(v) == IF v = JsonNull THEN <<"N", "o", "n", "e">> ELSE v

\* data.get("status") == 200 and data.get("results")
status_and_results(data) ==
  /\ "status" \in DOMAIN data
  /\ data.status = 200
  /\ "results" \in DOMAIN data
  /\ "list" \in DOMAIN data.results
  /\ Len(data.results.list) > 0

\* data["results"][-1]
last_result(results) == results[Len(results)]

\* data["results"][0]
first_result(results) == results[1]

\* the dict the function returns for a result
address_record(clean, result) ==
  [postal_code |-> SubSeq(clean, 1, 3) \o <<"-">> \o SubSeq(clean, 4, Len(clean)),
   prefecture |-> dict_get(result, "address1"),
   city |-> dict_get(result, "address2"),
   town |-> dict_get(result, "address3"),
   full_address |-> fstr(dict_get(result, "address1"))
                      \o fstr(dict_get(result, "address2"))
                      \o fstr(dict_get(result, "address3")),
   prefecture_kana |-> dict_get(result, "kana1"),
   city_kana |-> dict_get(result, "kana2"),
   town_kana |-> dict_get(result, "kana3")]

\* the try block: one GET, then the response is read.  msgs are the st.error
\* calls: "comm_error" 通信エラーが発生しました, "parse_error" レスポンスの解析に
\* 失敗しました, "unexpected_error" 予期しないエラーが発生しました
lookup_request(clean, resp) ==
  LET sent == <<[url |-> base_url, zipcode |-> clean, timeout |-> 10]>>
      failed(m) == [sent |-> sent, value |-> None, msgs |-> <<m>>]
  IN  IF resp.kind = "exception" THEN failed("comm_error")
      ELSE IF resp.status_code >= 400 THEN failed("comm_error")
      ELSE IF resp.body.json = "invalid"
        THEN failed(IF resp.body.raises = "RequestException"
                      THEN "comm_error" ELSE "parse_error")
      ELSE IF resp.body.json = "array" THEN failed("unexpected_error")
      ELSE IF status_and_results(resp.body.data)
        THEN LET result == first_result(resp.body.data.results.list)
             IN  IF result = NotADict THEN failed("unexpected_error")
                 ELSE [sent |-> sent, value |-> address_record(clean, result),
                       msgs |-> <<>>]
      ELSE [sent |-> sent, value |-> None, msgs |-> <<>>]

\* a body that sends the request again when the first attempt raised
get_address_with_retry(postal_code, resp) ==
  LET clean == clean_postal_code(postal_code)
      once == lookup_request(clean, resp)
  IN  IF ~format_ok(clean)
        THEN [sent |-> <<>>, value |-> None, msgs |-> <<>>]
        ELSE IF resp.kind = "exception"
          THEN [once EXCEPT !.sent = @ \o @]
          ELSE once

\* the body of the function, run on a cache miss
get_address_by_postal_code(postal_code, resp) ==
  LET clean == clean_postal_code(postal_code)
  IN  IF ~format_ok(clean)
        THEN [sent |-> <<>>, value |-> None, msgs |-> <<>>]
        ELSE lookup_request(clean, resp)

\* the inputs tried
PostalInputs ==
  { <<"1", "0", "0", "0", "0", "0", "1">>,
    <<"1", "0", "0", "-", "0", "0", "0", "1">>,
    <<"1", "0", "0", "0", "u2212", "0", "0", "1">>,
    <<"uff11", "0", "0", "0", "0", "0", "1">>,
    <<"5", "3", "0", "0", "0", "0", "1">>,
    <<"1", "0", "0", " ", "0", "0", "0", "1">>,
    <<"1", "0", "0", "a", "0", "0", "1">>,
    <<"1", "0", "0", "-", "0", "0", "0">>,
    <<"1", "0", "0", "0", "0", "0", "1", "1">>,
    <<>> }

\* the answers the service can give to a call: none when the call is served
\* from the cache or stops at the format check
AnswersTo(postal_code) ==
  IF postal_code \in DOMAIN cache \/ ~format_ok(clean_postal_code(postal_code))
    THEN {NoResponse}
    ELSE ZipResponses

\* what the page draws for the value the service returned (`if result:`
\* display_address_result, else display_error 該当する住所が見つかりませんでした);
\* "none" for a call that does not come from the page
PageShows(from_page, value) ==
  IF ~from_page THEN "none"
  ELSE IF value # None THEN "address_result" ELSE "not_found"

\* a cache that stores the records found and runs the function again after a
\* call that returned None
cache_records_only(postal_code, resp, from_page) ==
  IF postal_code \in DOMAIN cache
    THEN /\ last' = [op |-> "lookup", input |-> postal_code, called |-> TRUE,
                     hit |-> TRUE, sent |-> <<>>, resp |-> NoResponse,
                     value |-> cache[postal_code].value,
                     msgs |-> cache[postal_code].msgs,
                     page |-> PageShows(from_page, cache[postal_code].value)]
         /\ UNCHANGED <<cache, log>>
    ELSE LET r == get_address_by_postal_code(postal_code, resp)
             answer == IF r.sent = <<>> THEN NoResponse ELSE resp
         IN  /\ Cardinality(DOMAIN cache) < MaxCached
             /\ cache' = IF r.value = None THEN cache
                          ELSE (postal_code :> [value |-> r.value, msgs |-> r.msgs]) @@ cache
             /\ log' = IF r.value = None THEN log
                        ELSE (postal_code :> [sent |-> r.sent, resp |-> answer]) @@ log
             /\ last' = [op |-> "lookup", input |-> postal_code, called |-> TRUE,
                         hit |-> FALSE, sent |-> r.sent, resp |-> answer,
                         value |-> r.value, msgs |-> r.msgs,
                         page |-> PageShows(from_page, r.value)]

\* @st.cache_data: the function runs on a miss and its return value and the
\* elements it drew are stored under the argument; a hit replays them.  `log`
\* remembers, per entry, the request and the answer of the run that made it.
cached_call(postal_code, resp, from_page) ==
  IF postal_code \in DOMAIN cache
    THEN /\ last' = [op |-> "lookup", input |-> postal_code, called |-> TRUE,
                     hit |-> TRUE, sent |-> <<>>, resp |-> NoResponse,
                     value |-> cache[postal_code].value,
                     msgs |-> cache[postal_code].msgs,
                     page |-> PageShows(from_page, cache[postal_code].value)]
         /\ UNCHANGED <<cache, log>>
    ELSE LET r == get_address_by_postal_code(postal_code, resp)
             answer == IF r.sent = <<>> THEN NoResponse ELSE resp
         IN  /\ Cardinality(DOMAIN cache) < MaxCached
             /\ cache' = (postal_code :> [value |-> r.value, msgs |-> r.msgs]) @@ cache
             /\ log' = (postal_code :> [sent |-> r.sent, resp |-> answer]) @@ log
             /\ last' = [op |-> "lookup", input |-> postal_code, called |-> TRUE,
                         hit |-> FALSE, sent |-> r.sent, resp |-> answer,
                         value |-> r.value, msgs |-> r.msgs,
                         page |-> PageShows(from_page, r.value)]

\* a direct call of the service
GetAddress ==
  \E postal_code \in PostalInputs :
    \E resp \in AnswersTo(postal_code) :
    /\ cached_call(postal_code, resp, FALSE)
    /\ UNCHANGED <<search, session, calc, db>>

\* re.sub(r'[-−\s]', '', postal_code)
page_clean(postal_code) ==
  SelectSeq(postal_code, LAMBDA x : x \notin {"-", "u2212"} \cup WhitespaceChars)

\* the page's own check before it calls the service
page_format_ok(postal_code) ==
  Len(page_clean(postal_code)) = PostalLen /\ isdigit(page_clean(postal_code))

\* postal_to_address_search: the page's handler for one input
PostalToAddressSearch ==
  \E postal_code \in PostalInputs :
    \E resp \in AnswersTo(postal_code) :
    /\ Len(postal_code) <= PostalMaxChars
    /\ IF postal_code # <<>> /\ page_format_ok(postal_code)
         THEN cached_call(postal_code, resp, TRUE)
         ELSE /\ last' = [op |-> "lookup", input |-> postal_code, called |-> FALSE,
                          hit |-> FALSE, sent |-> <<>>, resp |-> NoResponse,
                          value |-> None, msgs |-> <<>>,
                          page |-> IF postal_code = <<>> THEN "nothing"
                                   ELSE "format_error"]
              /\ UNCHANGED <<cache, log>>
    /\ UNCHANGED <<search, session, calc, db>>

\* the settings page's button: st.cache_data.clear()
ClearCache ==
  /\ cache # <<>>
  /\ cache' = <<>>
  /\ log' = <<>>
  /\ UNCHANGED <<last, search, session, calc, db>>

(***************************************************************************)
(* search_postal_code_by_address, sample variant (postal_data.py).         *)
(***************************************************************************)
\* len(address.strip()) < 2
MinAddressLen == 2

\* results[:10]
MaxResults == 10

Min(S) == CHOOSE x \in S : \A y \in S : x <= y

Max(S) == CHOOSE x \in S : \A y \in S : x >= y

\* s.strip(): leading and trailing whitespace removed
strip(s) ==
  LET solid == {i \in 1..Len(s) : s[i] \notin WhitespaceChars}
  IN  IF solid = {} THEN <<>> ELSE SubSeq(s, Min(solid), Max(solid))

\* s.split(): the maximal runs of non-whitespace characters
RECURSIVE split(_)
split(s) ==
  IF s = <<>> THEN <<>>
  ELSE IF s[1] \in WhitespaceChars THEN split(Tail(s))
  ELSE LET gaps == {i \in 1..Len(s) : s[i] \in WhitespaceChars}
           n == IF gaps = {} THEN Len(s) + 1 ELSE Min(gaps)
       IN  <<SubSeq(s, 1, n - 1)>> \o split(SubSeq(s, n, Len(s)))

\* sub in s
contains(s, sub) ==
  \E i \in 0..(Len(s) - Len(sub)) : SubSeq(s, i + 1, i + Len(sub)) = sub

\* set(s)
chars(s) == {s[i] : i \in 1..Len(s)}

\* a list as a return value
ListValue(rs) == [list |-> rs]

\* the list of the 47 prefecture names, in the order of the source
prefectures ==
  <<
     <<"u5317", "u6d77", "u9053">>,  \* 北海道
     <<"u9752", "u68ee", "u770c">>,  \* 青森県
     <<"u5ca9", "u624b", "u770c">>,  \* 岩手県
     <<"u5bae", "u57ce", "u770c">>,  \* 宮城県
     <<"u79cb", "u7530", "u770c">>,  \* 秋田県
     <<"u5c71", "u5f62", "u770c">>,  \* 山形県
     <<"u798f", "u5cf6", "u770c">>,  \* 福島県
     <<"u8328", "u57ce", "u770c">>,  \* 茨城県
     <<"u6803", "u6728", "u770c">>,  \* 栃木県
     <<"u7fa4", "u99ac", "u770c">>,  \* 群馬県
     <<"u57fc", "u7389", "u770c">>,  \* 埼玉県
     <<"u5343", "u8449", "u770c">>,  \* 千葉県
     <<"u6771", "u4eac", "u90fd">>,  \* 東京都
     <<"u795e", "u5948", "u5ddd", "u770c">>,  \* 神奈川県
     <<"u65b0", "u6f5f", "u770c">>,  \* 新潟県
     <<"u5bcc", "u5c71", "u770c">>,  \* 富山県
     <<"u77f3", "u5ddd", "u770c">>,  \* 石川県
     <<"u798f", "u4e95", "u770c">>,  \* 福井県
     <<"u5c71", "u68a8", "u770c">>,  \* 山梨県
     <<"u9577", "u91ce", "u770c">>,  \* 長野県
     <<"u5c90", "u961c", "u770c">>,  \* 岐阜県
     <<"u9759", "u5ca1", "u770c">>,  \* 静岡県
     <<"u611b", "u77e5", "u770c">>,  \* 愛知県
     <<"u4e09", "u91cd", "u770c">>,  \* 三重県
     <<"u6ecb", "u8cc0", "u770c">>,  \* 滋賀県
     <<"u4eac", "u90fd", "u5e9c">>,  \* 京都府
     <<"u5927", "u962a", "u5e9c">>,  \* 大阪府
     <<"u5175", "u5eab", "u770c">>,  \* 兵庫県
     <<"u5948", "u826f", "u770c">>,  \* 奈良県
     <<"u548c", "u6b4c", "u5c71", "u770c">>,  \* 和歌山県
     <<"u9ce5", "u53d6", "u770c">>,  \* 鳥取県
     <<"u5cf6", "u6839", "u770c">>,  \* 島根県
     <<"u5ca1", "u5c71", "u770c">>,  \* 岡山県
     <<"u5e83", "u5cf6", "u770c">>,  \* 広島県
     <<"u5c71", "u53e3", "u770c">>,  \* 山口県
     <<"u5fb3", "u5cf6", "u770c">>,  \* 徳島県
     <<"u9999", "u5ddd", "u770c">>,  \* 香川県
     <<"u611b", "u5a9b", "u770c">>,  \* 愛媛県
     <<"u9ad8", "u77e5", "u770c">>,  \* 高知県
     <<"u798f", "u5ca1", "u770c">>,  \* 福岡県
     <<"u4f50", "u8cc0", "u770c">>,  \* 佐賀県
     <<"u9577", "u5d0e", "u770c">>,  \* 長崎県
     <<"u718a", "u672c", "u770c">>,  \* 熊本県
     <<"u5927", "u5206", "u770c">>,  \* 大分県
     <<"u5bae", "u5d0e", "u770c">>,  \* 宮崎県
     <<"u9e7f", "u5150", "u5cf6", "u770c">>,  \* 鹿児島県
     <<"u6c96", "u7e04", "u770c">>   \* 沖縄県
  >>

\* sample_data["東京都"]
sample_tokyo ==
  <<
     [postal_code |-> <<"1", "0", "0", "-", "0", "0", "0", "1">>, address |-> <<"u6771", "u4eac", "u90fd", "u5343", "u4ee3", "u7530", "u533a", "u5343", "u4ee3", "u7530">>],  \* 東京都千代田区千代田
     [postal_code |-> <<"1", "0", "0", "-", "0", "0", "0", "4">>, address |-> <<"u6771", "u4eac", "u90fd", "u5343", "u4ee3", "u7530", "u533a", "u5927", "u624b", "u753a">>],  \* 東京都千代田区大手町
     [postal_code |-> <<"1", "0", "0", "-", "0", "0", "0", "5">>, address |-> <<"u6771", "u4eac", "u90fd", "u5343", "u4ee3", "u7530", "u533a", "u4e38", "u306e", "u5185">>],  \* 東京都千代田区丸の内
     [postal_code |-> <<"1", "0", "0", "-", "0", "0", "0", "6">>, address |-> <<"u6771", "u4eac", "u90fd", "u5343", "u4ee3", "u7530", "u533a", "u6709", "u697d", "u753a">>],  \* 東京都千代田区有楽町
     [postal_code |-> <<"1", "0", "0", "-", "0", "0", "1", "1">>, address |-> <<"u6771", "u4eac", "u90fd", "u5343", "u4ee3", "u7530", "u533a", "u5185", "u5e78", "u753a">>],  \* 東京都千代田区内幸町
     [postal_code |-> <<"1", "0", "0", "-", "0", "0", "1", "3">>, address |-> <<"u6771", "u4eac", "u90fd", "u5343", "u4ee3", "u7530", "u533a", "u971e", "u304c", "u95a2">>],  \* 東京都千代田区霞が関
     [postal_code |-> <<"1", "0", "0", "-", "0", "0", "1", "4">>, address |-> <<"u6771", "u4eac", "u90fd", "u5343", "u4ee3", "u7530", "u533a", "u6c38", "u7530", "u753a">>],  \* 東京都千代田区永田町
     [postal_code |-> <<"1", "0", "5", "-", "0", "0", "0", "1">>, address |-> <<"u6771", "u4eac", "u90fd", "u6e2f", "u533a", "u864e", "u30ce", "u9580">>],  \* 東京都港区虎ノ門
     [postal_code |-> <<"1", "0", "5", "-", "0", "0", "0", "3">>, address |-> <<"u6771", "u4eac", "u90fd", "u6e2f", "u533a", "u897f", "u65b0", "u6a4b">>],  \* 東京都港区西新橋
     [postal_code |-> <<"1", "0", "5", "-", "0", "0", "0", "4">>, address |-> <<"u6771", "u4eac", "u90fd", "u6e2f", "u533a", "u65b0", "u6a4b">>],  \* 東京都港区新橋
     [postal_code |-> <<"1", "0", "6", "-", "0", "0", "3", "2">>, address |-> <<"u6771", "u4eac", "u90fd", "u6e2f", "u533a", "u516d", "u672c", "u6728">>],  \* 東京都港区六本木
     [postal_code |-> <<"1", "0", "7", "-", "0", "0", "5", "2">>, address |-> <<"u6771", "u4eac", "u90fd", "u6e2f", "u533a", "u8d64", "u5742">>],  \* 東京都港区赤坂
     [postal_code |-> <<"1", "5", "0", "-", "0", "0", "0", "1">>, address |-> <<"u6771", "u4eac", "u90fd", "u6e0b", "u8c37", "u533a", "u795e", "u5bae", "u524d">>],  \* 東京都渋谷区神宮前
     [postal_code |-> <<"1", "5", "0", "-", "0", "0", "0", "2">>, address |-> <<"u6771", "u4eac", "u90fd", "u6e0b", "u8c37", "u533a", "u6e0b", "u8c37">>],  \* 東京都渋谷区渋谷
     [postal_code |-> <<"1", "6", "0", "-", "0", "0", "2", "2">>, address |-> <<"u6771", "u4eac", "u90fd", "u65b0", "u5bbf", "u533a", "u65b0", "u5bbf">>],  \* 東京都新宿区新宿
     [postal_code |-> <<"1", "7", "0", "-", "0", "0", "1", "3">>, address |-> <<"u6771", "u4eac", "u90fd", "u8c4a", "u5cf6", "u533a", "u6771", "u6c60", "u888b">>]   \* 東京都豊島区東池袋
  >>

\* sample_data["大阪府"]
sample_osaka ==
  <<
     [postal_code |-> <<"5", "3", "0", "-", "0", "0", "0", "1">>, address |-> <<"u5927", "u962a", "u5e9c", "u5927", "u962a", "u5e02", "u5317", "u533a", "u6885", "u7530">>],  \* 大阪府大阪市北区梅田
     [postal_code |-> <<"5", "4", "0", "-", "0", "0", "0", "8">>, address |-> <<"u5927", "u962a", "u5e9c", "u5927", "u962a", "u5e02", "u4e2d", "u592e", "u533a", "u5927", "u624b", "u524d">>],  \* 大阪府大阪市中央区大手前
     [postal_code |-> <<"5", "4", "2", "-", "0", "0", "7", "6">>, address |-> <<"u5927", "u962a", "u5e9c", "u5927", "u962a", "u5e02", "u4e2d", "u592e", "u533a", "u96e3", "u6ce2">>],  \* 大阪府大阪市中央区難波
     [postal_code |-> <<"5", "5", "6", "-", "0", "0", "1", "1">>, address |-> <<"u5927", "u962a", "u5e9c", "u5927", "u962a", "u5e02", "u6d6a", "u901f", "u533a", "u96e3", "u6ce2", "u4e2d">>]   \* 大阪府大阪市浪速区難波中
  >>

\* sample_data["神奈川県"]
sample_kanagawa ==
  <<
     [postal_code |-> <<"2", "2", "0", "-", "0", "0", "1", "1">>, address |-> <<"u795e", "u5948", "u5ddd", "u770c", "u6a2a", "u6d5c", "u5e02", "u897f", "u533a", "u9ad8", "u5cf6">>],  \* 神奈川県横浜市西区高島
     [postal_code |-> <<"2", "2", "0", "-", "0", "0", "1", "2">>, address |-> <<"u795e", "u5948", "u5ddd", "u770c", "u6a2a", "u6d5c", "u5e02", "u897f", "u533a", "u307f", "u306a", "u3068", "u307f", "u3089", "u3044">>],  \* 神奈川県横浜市西区みなとみらい
     [postal_code |-> <<"2", "3", "1", "-", "0", "0", "2", "3">>, address |-> <<"u795e", "u5948", "u5ddd", "u770c", "u6a2a", "u6d5c", "u5e02", "u4e2d", "u533a", "u5c71", "u4e0b", "u753a">>]   \* 神奈川県横浜市中区山下町
  >>

\* a table that answers with the 東京都 entries for the prefectures it lacks
sample_data_or_tokyo(prefecture) ==
  IF prefecture = prefectures[27] THEN sample_osaka
  ELSE IF prefecture = prefectures[14] THEN sample_kanagawa
  ELSE sample_tokyo

\* `prefecture in sample_data` and sample_data[prefecture]
sample_data(prefecture) ==
  IF prefecture = prefectures[13] THEN sample_tokyo
  ELSE IF prefecture = prefectures[27] THEN sample_osaka
  ELSE IF prefecture = prefectures[14] THEN sample_kanagawa
  ELSE <<>>

\* a search that falls back to 東京都 when no name occurs
target_prefecture_or_tokyo(address) ==
  LET found == {i \in 1..Len(prefectures) : contains(address, prefectures[i])}
  IN  IF found = {} THEN prefectures[13] ELSE prefectures[Min(found)]

\* the name that occurs leftmost in the address
leftmost_prefecture(address) ==
  LET found == {i \in 1..Len(prefectures) : contains(address, prefectures[i])}
      at(i) == Min({k \in 1..(Len(address) - Len(prefectures[i]) + 1) :
                      SubSeq(address, k, k + Len(prefectures[i]) - 1) = prefectures[i]})
  IN  IF found = {} THEN <<>>
      ELSE prefectures[CHOOSE i \in found : \A j \in found : at(i) <= at(j)]

\* the loop over the list with its break: the first name, in list order, that
\* occurs in the address; <<>> stands for None
target_prefecture(address) ==
  LET found == {i \in 1..Len(prefectures) : contains(address, prefectures[i])}
  IN  IF found = {} THEN <<>> ELSE prefectures[Min(found)]

\* the target's characters counted against the query's
target_per_query(query, target) ==
  LET query_parts == chars(replace_char(replace_char(query, " "), "u3000"))
      target_parts == chars(replace_char(replace_char(target, " "), "u3000"))
  IN  IF query_parts = {} THEN [num |-> 0, den |-> 1]
      ELSE [num |-> Cardinality(target_parts), den |-> Cardinality(query_parts)]

\* _calculate_match_score: |query chars in target| / |query chars|, as the
\* fraction num/den (0.0 is 0/1)
calculate_match_score(query, target) ==
  LET query_parts == chars(replace_char(replace_char(query, " "), "u3000"))
      target_parts == chars(replace_char(replace_char(target, " "), "u3000"))
  IN  IF query_parts = {} THEN [num |-> 0, den |-> 1]
      ELSE [num |-> Cardinality(query_parts \cap target_parts),
            den |-> Cardinality(query_parts)]

\* a.match_score > b.match_score
score_gt(a, b) ==
  a.match_score.num * b.match_score.den > b.match_score.num * a.match_score.den

\* one element put into a list sorted by descending score, after its equals
insert_by_score(sorted, x) ==
  LET before == {i \in 1..Len(sorted) : ~score_gt(x, sorted[i])}
      n == IF before = {} THEN 0 ELSE Max(before)
  IN  SubSeq(sorted, 1, n) \o <<x>> \o SubSeq(sorted, n + 1, Len(sorted))

\* a list left in the order its candidates were found
keep_order(rs) == rs

\* results.sort(key=match_score, reverse=True): stable, descending
RECURSIVE sort_by_score(_)
sort_by_score(rs) ==
  IF rs = <<>> THEN <<>>
  ELSE insert_by_score(sort_by_score(SubSeq(rs, 1, Len(rs) - 1)), rs[Len(rs)])

\* a list returned whole
keep_all(rs) == rs

\* results[:10]
first_ten(rs) == SubSeq(rs, 1, IF Len(rs) < MaxResults THEN Len(rs) ELSE MaxResults)

\* _search_address_sample, the loop: `results` as the appends leave it
sample_results(address, prefecture) ==
  LET parts == SelectSeq(split(address), LAMBDA p : Len(p) > 1)
      matches(item) == \E j \in 1..Len(parts) : contains(item.address, parts[j])
      items == SelectSeq(sample_data(prefecture), matches)
  IN  [j \in 1..Len(items) |->
         [postal_code |-> items[j].postal_code,
          full_address |-> items[j].address,
          match_score |-> calculate_match_score(address, items[j].address)]]

\* _search_address_sample
search_address_sample(address, prefecture) ==
  LET sorted == sort_by_score(sample_results(address, prefecture))
  IN  IF sorted = <<>> THEN None ELSE ListValue(first_ten(sorted))

\* a length check that forgets strip()
too_short_unstripped(address) == address = <<>> \/ Len(address) < MinAddressLen

\* `not address or len(address.strip()) < 2`
too_short(address) == address = <<>> \/ Len(strip(address)) < MinAddressLen

\* the sample variant's function: where it returned (exit), what it returned,
\* whether the sample table was consulted, and the `results` list of
\* _search_address_sample before its sort
search_sample(address) ==
  IF too_short(address)
    THEN [exit |-> "too_short", value |-> None, lookups |-> 0, results |-> <<>>]
  ELSE IF target_prefecture(address) = <<>>
    THEN [exit |-> "no_prefecture", value |-> None, lookups |-> 0, results |-> <<>>]
  ELSE [exit |-> "sample",
        value |-> search_address_sample(address, target_prefecture(address)),
        lookups |-> 1,
        results |-> sample_results(address, target_prefecture(address))]

(***************************************************************************)
(* search_postal_code_by_address, API variant (postal_data_clean.py).      *)
(***************************************************************************)
\* max_check = min(50, len(postal_patterns))
MaxCheck == 50

\* for i in range(10000)
PerPrefix == 10000

\* probes of one scan, counted from the first, that the directory may answer
\* with results
ProbeWindow == 2

\* s.find(sub): the index (from 0) of the first occurrence
find(s, sub) ==
  Min({i \in 0..(Len(s) - Len(sub)) : SubSeq(s, i + 1, i + Len(sub)) = sub})

\* _calculate_simple_match_score, as the fraction num/den
calculate_simple_match_score(query, target) ==
  LET query_clean == replace_char(replace_char(query, " "), "u3000")
      target_clean == replace_char(replace_char(target, " "), "u3000")
      query_chars == chars(query_clean)
      target_chars == chars(target_clean)
  IN  IF query = <<>> \/ target = <<>> THEN [num |-> 0, den |-> 1]
      ELSE IF query_clean = target_clean THEN [num |-> 1, den |-> 1]
      ELSE IF contains(target_clean, query_clean) THEN [num |-> 95, den |-> 100]
      ELSE IF contains(query_clean, target_clean) THEN [num |-> 9, den |-> 10]
      ELSE IF query_chars = {} THEN [num |-> 0, den |-> 1]
      ELSE [num |-> Cardinality(query_chars \cap target_chars),
            den |-> Cardinality(query_chars)]

\* 東京都 / 千代田区 / 丸の内, 1000005
Loc_Marunouchi ==
  [postal |-> <<"1", "0", "0", "0", "0", "0", "5">>,
   prefecture |-> <<"u6771", "u4eac", "u90fd">>,
   city |-> <<"u5343", "u4ee3", "u7530", "u533a">>,
   town |-> <<"u4e38", "u306e", "u5185">>]

\* 東京都 / 千代田区, 1000001, no town
Loc_Chiyoda ==
  [postal |-> <<"1", "0", "0", "0", "0", "0", "1">>,
   prefecture |-> <<"u6771", "u4eac", "u90fd">>,
   city |-> <<"u5343", "u4ee3", "u7530", "u533a">>]

\* a location without a postal code
Loc_NoPostal ==
  [prefecture |-> <<"u6771", "u4eac", "u90fd">>,
   city |-> <<"u6e2f", "u533a">>,
   town |-> <<"u65b0", "u6a4b">>]

\* what the HeartRails endpoint may answer
HeartRailsResponses ==
  { TransportError,
    HttpResponse(500, InvalidJson("RequestException")),
    HttpResponse(200, InvalidJson("JSONDecodeError")),
    HttpResponse(200, JsonObject([response |-> [error |-> <<"e">>]])),
    HttpResponse(200, JsonObject([response |->
      [location |-> ResultsList(<<Loc_Chiyoda, Loc_NoPostal, Loc_Marunouchi>>)]])),
    HttpResponse(200, JsonObject([response |-> [location |-> Loc_Marunouchi]])),
    HttpResponse(200, JsonObject([response |->
      [location |-> ResultsList([j \in 1..(MaxResults + 1) |->
                                   IF j <= MaxResults THEN Loc_Chiyoda ELSE Loc_Marunouchi])]])),
    HttpResponse(200, JsonObject([response |->
      [location |-> ResultsList([j \in 1..(MaxResults + 1) |->
                                   IF j <= MaxResults THEN Loc_NoPostal ELSE Loc_Chiyoda])]])),
    HttpResponse(200, JsonObject([response |->
      [location |-> ResultsList(<<Loc_NoPostal>>)]])) }

\* _process_api_response
process_api_response(data, original_address) ==
  LET given == data.response.location
      locations == IF "list" \in DOMAIN given THEN given.list ELSE <<given>>
      head == first_ten(locations)
      kept == SelectSeq(head, LAMBDA location :
                "postal" \in DOMAIN location /\ location.postal # <<>>)
      full(location) == dict_get(location, "prefecture")
                          \o dict_get(location, "city") \o dict_get(location, "town")
      formatted(postal_code) ==
        IF Len(postal_code) = PostalLen
          THEN SubSeq(postal_code, 1, 3) \o <<"-">> \o SubSeq(postal_code, 4, Len(postal_code))
          ELSE postal_code
      results == [j \in 1..Len(kept) |->
                    [postal_code |-> formatted(kept[j].postal),
                     full_address |-> full(kept[j]),
                     match_score |-> calculate_simple_match_score(original_address, full(kept[j])),
                     source |-> "HeartRails Geo API"]]
      sorted == sort_by_score(results)
  IN  IF sorted = <<>> THEN None ELSE ListValue(sorted)

\* data.get("response") and data["response"].get("location")
response_has_location(data) ==
  /\ "response" \in DOMAIN data
  /\ "location" \in DOMAIN data.response
  /\ ("list" \in DOMAIN data.response.location => data.response.location.list # <<>>)

\* the locations with a postal code among those _process_api_response reads
\* (locations[:10])
locations_with_postal(resp) ==
  IF resp.kind = "response" /\ resp.status_code = 200 /\ resp.body.json = "object"
     /\ response_has_location(resp.body.data)
    THEN LET given == resp.body.data.response.location
             locations == IF "list" \in DOMAIN given THEN given.list ELSE <<given>>
         IN  Cardinality({j \in 1..Min({MaxResults, Len(locations)}) :
                            "postal" \in DOMAIN locations[j] /\ locations[j].postal # <<>>})
    ELSE 0

\* a search that never has a candidate from HeartRails
no_heartrails(address, resp) == None

\* _search_with_heartrails_api: every exception ends in `return None`
search_with_heartrails_api(address, resp) ==
  IF resp.kind = "exception" THEN None
  ELSE IF resp.status_code # 200 THEN None
  ELSE IF resp.body.json # "object" THEN None
  ELSE IF response_has_location(resp.body.data)
    THEN process_api_response(resp.body.data, address)
  ELSE None

\* _extract_prefecture_city; <<>> stands for None
extract_prefecture_city(address) ==
  LET found == {i \in 1..Len(prefectures) : contains(address, prefectures[i])}
      pref == prefectures[Min(found)]
      remaining == strip(SubSeq(address, find(address, pref) + Len(pref) + 1, Len(address)))
      suffixes == <<"u5e02", "u533a", "u753a", "u6751">>
      present == {k \in 1..Len(suffixes) : contains(remaining, <<suffixes[k]>>)}
      city == IF present # {}
                THEN SubSeq(remaining, 1, find(remaining, <<suffixes[Min(present)]>>) + 1)
              ELSE IF remaining # <<>>
                THEN IF split(remaining) # <<>> THEN split(remaining)[1]
                     ELSE SubSeq(remaining, 1, 6)
              ELSE <<>>
  IN  IF found = {} THEN [prefecture |-> <<>>, city |-> <<>>]
      ELSE [prefecture |-> pref, city |-> city]

\* prefecture_ranges, one row per (prefecture, city)
prefecture_ranges ==
  <<
     \* 埼玉県 熊谷市
     [prefecture |-> <<"u57fc", "u7389", "u770c">>, city |-> <<"u718a", "u8c37", "u5e02">>,
      ranges |-> <<<<"3", "6", "0">>, <<"3", "6", "1">>>>],
     \* 埼玉県 さいたま市
     [prefecture |-> <<"u57fc", "u7389", "u770c">>, city |-> <<"u3055", "u3044", "u305f", "u307e", "u5e02">>,
      ranges |-> <<<<"3", "3", "0">>, <<"3", "3", "1">>, <<"3", "3", "6">>, <<"3", "3", "7">>, <<"3", "3", "8">>>>],
     \* 埼玉県 川口市
     [prefecture |-> <<"u57fc", "u7389", "u770c">>, city |-> <<"u5ddd", "u53e3", "u5e02">>,
      ranges |-> <<<<"3", "3", "2">>, <<"3", "3", "3">>>>],
     \* 埼玉県 川越市
     [prefecture |-> <<"u57fc", "u7389", "u770c">>, city |-> <<"u5ddd", "u8d8a", "u5e02">>,
      ranges |-> <<<<"3", "5", "0">>>>],
     \* 埼玉県 所沢市
     [prefecture |-> <<"u57fc", "u7389", "u770c">>, city |-> <<"u6240", "u6ca2", "u5e02">>,
      ranges |-> <<<<"3", "5", "9">>>>],
     \* 千葉県 千葉市
     [prefecture |-> <<"u5343", "u8449", "u770c">>, city |-> <<"u5343", "u8449", "u5e02">>,
      ranges |-> <<<<"2", "6", "0">>, <<"2", "6", "1">>, <<"2", "6", "2">>, <<"2", "6", "3">>, <<"2", "6", "4">>, <<"2", "6", "5">>, <<"2", "6", "6">>>>],
     \* 千葉県 市川市
     [prefecture |-> <<"u5343", "u8449", "u770c">>, city |-> <<"u5e02", "u5ddd", "u5e02">>,
      ranges |-> <<<<"2", "7", "2">>>>],
     \* 千葉県 船橋市
     [prefecture |-> <<"u5343", "u8449", "u770c">>, city |-> <<"u8239", "u6a4b", "u5e02">>,
      ranges |-> <<<<"2", "7", "3">>, <<"2", "7", "4">>>>],
     \* 千葉県 松戸市
     [prefecture |-> <<"u5343", "u8449", "u770c">>, city |-> <<"u677e", "u6238", "u5e02">>,
      ranges |-> <<<<"2", "7", "0">>, <<"2", "7", "1">>>>],
     \* 東京都 千代田区
     [prefecture |-> <<"u6771", "u4eac", "u90fd">>, city |-> <<"u5343", "u4ee3", "u7530", "u533a">>,
      ranges |-> <<<<"1", "0", "0">>, <<"1", "0", "1">>, <<"1", "0", "2">>>>],
     \* 東京都 中央区
     [prefecture |-> <<"u6771", "u4eac", "u90fd">>, city |-> <<"u4e2d", "u592e", "u533a">>,
      ranges |-> <<<<"1", "0", "3">>, <<"1", "0", "4">>>>],
     \* 東京都 港区
     [prefecture |-> <<"u6771", "u4eac", "u90fd">>, city |-> <<"u6e2f", "u533a">>,
      ranges |-> <<<<"1", "0", "5">>, <<"1", "0", "6">>, <<"1", "0", "7">>, <<"1", "0", "8">>>>],
     \* 東京都 新宿区
     [prefecture |-> <<"u6771", "u4eac", "u90fd">>, city |-> <<"u65b0", "u5bbf", "u533a">>,
      ranges |-> <<<<"1", "6", "0">>, <<"1", "6", "1">>, <<"1", "6", "2">>, <<"1", "6", "3">>, <<"1", "6", "9">>>>],
     \* 東京都 渋谷区
     [prefecture |-> <<"u6771", "u4eac", "u90fd">>, city |-> <<"u6e0b", "u8c37", "u533a">>,
      ranges |-> <<<<"1", "5", "0">>, <<"1", "5", "1">>>>],
     \* 大阪府 大阪市
     [prefecture |-> <<"u5927", "u962a", "u5e9c">>, city |-> <<"u5927", "u962a", "u5e02">>,
      ranges |-> <<<<"5", "3", "0">>, <<"5", "3", "1">>, <<"5", "3", "2">>, <<"5", "3", "3">>, <<"5", "3", "4">>, <<"5", "3", "5">>, <<"5", "4", "0">>, <<"5", "4", "1">>, <<"5", "4", "2">>, <<"5", "4", "3">>, <<"5", "4", "4">>, <<"5", "4", "5">>, <<"5", "4", "6">>, <<"5", "4", "7">>, <<"5", "5", "0">>, <<"5", "5", "1">>, <<"5", "5", "2">>, <<"5", "5", "3">>, <<"5", "5", "4">>, <<"5", "5", "6">>, <<"5", "5", "7">>, <<"5", "5", "8">>, <<"5", "5", "9">>>>],
     \* 大阪府 堺市
     [prefecture |-> <<"u5927", "u962a", "u5e9c">>, city |-> <<"u583a", "u5e02">>,
      ranges |-> <<<<"5", "9", "0">>, <<"5", "9", "1">>, <<"5", "9", "2">>, <<"5", "9", "3">>, <<"5", "9", "4">>, <<"5", "9", "9">>>>]
  >>

\* the values hash(prefecture + city) may take (str hashes differ from run to run)
HashValues == {-1, 0, 250}

DecimalDigit == <<"0", "1", "2", "3", "4", "5", "6", "7", "8", "9">>

\* f"{n:03d}"
format_03d(n) ==
  IF n < 0 THEN <<"?">>
  ELSE IF n >= 1000
    THEN <<DecimalDigit[((n \div 1000) % 10) + 1], DecimalDigit[((n \div 100) % 10) + 1],
           DecimalDigit[((n \div 10) % 10) + 1], DecimalDigit[(n % 10) + 1]>>
  ELSE <<DecimalDigit[(n \div 100) + 1], DecimalDigit[((n \div 10) % 10) + 1],
         DecimalDigit[(n % 10) + 1]>>

\* f"{i:04d}" for i in range(10000)
format_04d(i) ==
  <<DecimalDigit[(i \div 1000) + 1], DecimalDigit[((i \div 100) % 10) + 1],
    DecimalDigit[((i \div 10) % 10) + 1], DecimalDigit[(i % 10) + 1]>>

\* _get_postal_patterns_extended: the prefixes the patterns are built from,
\* 10000 patterns each; h is hash(prefecture + city)
postal_prefixes(prefecture, city, h) ==
  LET rows == {r \in 1..Len(prefecture_ranges) :
                 /\ prefecture_ranges[r].prefecture = prefecture
                 /\ prefecture_ranges[r].city = city}
  IN  IF rows # {} THEN prefecture_ranges[Min(rows)].ranges
      ELSE <<format_03d((h % 900) + 100)>>

\* postal_patterns[n], n from 0
pattern_at(prefixes, n) ==
  prefixes[(n \div PerPrefix) + 1] \o format_04d(n % PerPrefix)

\* len(postal_patterns): a scan over every pattern
every_pattern(prefixes) == Len(prefixes) * PerPrefix

\* min(50, len(postal_patterns))
max_check(prefixes) ==
  IF Len(prefixes) * PerPrefix < MaxCheck THEN Len(prefixes) * PerPrefix ELSE MaxCheck

\* 千代田区 as the directory spells it
Result_ChiyodaKu ==
  [address1 |-> <<"u6771", "u4eac", "u90fd">>,
   address2 |-> <<"u5343", "u4ee3", "u7530", "u533a">>,
   address3 |-> <<>>]

\* 東京都千代田区 with the town t
Result_Town(t) ==
  [address1 |-> <<"u6771", "u4eac", "u90fd">>,
   address2 |-> <<"u5343", "u4ee3", "u7530", "u533a">>,
   address3 |-> t]

\* one code shared by five towns (千代田, 丸の内, 大手町, 霞が関, 永田町) and by the
\* ward itself
Results_SixTowns ==
  << Result_Town(<<"u5343", "u4ee3", "u7530">>),
     Result_Town(<<"u4e38", "u306e", "u5185">>),
     Result_Town(<<"u5927", "u624b", "u753a">>),
     Result_Town(<<"u971e", "u304c", "u95a2">>),
     Result_Town(<<"u6c38", "u7530", "u753a">>),
     Result_ChiyodaKu >>

\* what zipcloud may answer to probe n of a scan
ProbeResponses(n) ==
  { TransportError,
    HttpResponse(500, InvalidJson("RequestException")),
    HttpResponse(200, InvalidJson("RequestException")),
    HttpResponse(200, InvalidJson("JSONDecodeError")),
    HttpResponse(200, JsonObject([status |-> 200, results |-> ResultsNull])) }
  \cup
  IF n < ProbeWindow
    THEN { HttpResponse(200, JsonObject([status |-> 200,
             results |-> ResultsList(<<Result_ChiyodaKu, Result_Osaka>>)])),
           HttpResponse(200, JsonObject([status |-> 200,
             results |-> ResultsList(<<Result_Chiyoda>>)])),
           HttpResponse(200, JsonObject([status |-> 200,
             results |-> ResultsList(Results_SixTowns)])) }
    ELSE {}

\* a threshold that lets a score of exactly 0.7 pass
at_least_threshold(match_score) == match_score.num * 10 >= 7 * match_score.den

\* match_score > 0.7
above_threshold(match_score) == match_score.num * 10 > 7 * match_score.den

\* the full_address of one result of the directory
result_full_address(result) ==
  fstr(dict_get(result, "address1")) \o fstr(dict_get(result, "address2"))
    \o fstr(dict_get(result, "address3"))

\* the hits of one answered probe that the threshold turns away
not_retained(address, rs) ==
  {[full_address |-> result_full_address(rs[j]),
    match_score |-> calculate_simple_match_score(address, result_full_address(rs[j]))] :
     j \in {k \in 1..Len(rs) :
              ~above_threshold(calculate_simple_match_score(address,
                                                            result_full_address(rs[k])))}}

\* the candidates one answered probe adds (the loop over data["results"])
RECURSIVE retained(_, _, _)
retained(address, pattern, rs) ==
  IF rs = <<>> THEN <<>>
  ELSE LET result == rs[1]
           full_address == fstr(dict_get(result, "address1"))
                             \o fstr(dict_get(result, "address2"))
                             \o fstr(dict_get(result, "address3"))
           match_score == calculate_simple_match_score(address, full_address)
       IN  (IF above_threshold(match_score)
              THEN <<[postal_code |-> SubSeq(pattern, 1, 3) \o <<"-">>
                                        \o SubSeq(pattern, 4, Len(pattern)),
                      full_address |-> full_address,
                      match_score |-> match_score,
                      source |-> "zipcloud API"]>>
              ELSE <<>>)
           \o retained(address, pattern, Tail(rs))

\* a probe loop that a transport error leaves for the outer except
probe_aborting_on_failure(address, pattern, results, resp) ==
  IF resp.kind = "exception" THEN [stop |-> TRUE, results |-> results]
  ELSE IF resp.status_code # 200 THEN [stop |-> FALSE, results |-> results]
  ELSE IF resp.body.json # "object" THEN [stop |-> TRUE, results |-> results]
  ELSE IF status_and_results(resp.body.data)
          /\ \A j \in 1..Len(resp.body.data.results.list) :
               resp.body.data.results.list[j] # NotADict
    THEN [stop |-> FALSE,
          results |-> results \o retained(address, pattern, resp.body.data.results.list)]
  ELSE [stop |-> FALSE, results |-> results]

\* one turn of the probe loop: `stop` when an exception other than a
\* RequestException leaves the loop for the outer except
zipcloud_probe(address, pattern, results, resp) ==
  IF resp.kind = "exception" THEN [stop |-> FALSE, results |-> results]
  ELSE IF resp.status_code # 200 THEN [stop |-> FALSE, results |-> results]
  ELSE IF resp.body.json = "invalid"
    THEN [stop |-> resp.body.raises # "RequestException", results |-> results]
  ELSE IF resp.body.json = "array" THEN [stop |-> TRUE, results |-> results]
  ELSE IF status_and_results(resp.body.data)
    THEN IF \E j \in 1..Len(resp.body.data.results.list) :
              resp.body.data.results.list[j] = NotADict
           THEN [stop |-> TRUE, results |-> results]
           ELSE [stop |-> FALSE,
                 results |-> results \o retained(address, pattern, resp.body.data.results.list)]
  ELSE [stop |-> FALSE, results |-> results]

\* the hits a probe's answer holds that the loop examines and does not keep
probe_rejects(address, resp) ==
  IF /\ resp.kind = "response"
     /\ resp.status_code = 200
     /\ resp.body.json = "object"
     /\ status_and_results(resp.body.data)
     /\ \A j \in 1..Len(resp.body.data.results.list) :
          resp.body.data.results.list[j] # NotADict
    THEN not_retained(address, resp.body.data.results.list)
    ELSE {}

\* a remote call that did not deliver a readable answer
call_failed(resp) ==
  \/ resp.kind = "exception"
  \/ resp.kind = "response" /\ resp.status_code # 200
  \/ resp.kind = "response" /\ resp.body.json # "object"

\* the addresses searched for
SearchInputs ==
  { <<>>,
    <<"a">>,
    <<" ", "a", " ">>,
    <<"u3000", "a">>,
    <<" ", " ">>,
    <<"a", "b">>,
    <<"a", " ", "b">>,
    \* 東京都千代田区
    <<"u6771", "u4eac", "u90fd", "u5343", "u4ee3", "u7530", "u533a">>,
    \* 東京都
    <<"u6771", "u4eac", "u90fd">>,
    \* 東京都千代田区丸の内
    <<"u6771", "u4eac", "u90fd", "u5343", "u4ee3", "u7530", "u533a", "u4e38", "u306e", "u5185">>,
    \* 東京都 港区
    <<"u6771", "u4eac", "u90fd", " ", "u6e2f", "u533a">>,
    \* 千代田区丸の内
    <<"u5343", "u4ee3", "u7530", "u533a", "u4e38", "u306e", "u5185">>,
    \* 北海道札幌市
    <<"u5317", "u6d77", "u9053", "u672d", "u5e4c", "u5e02">>,
    \* 千葉県 新宿
    <<"u5343", "u8449", "u770c", " ", "u65b0", "u5bbf">>,
    \* 大阪府大阪市中央区難波
    <<"u5927", "u962a", "u5e9c", "u5927", "u962a", "u5e02", "u4e2d", "u592e", "u533a",
      "u96e3", "u6ce2">> }

\* no search has run
NoSearch ==
  [variant |-> "none", address |-> <<>>, pc |-> "idle", exit |-> "none",
   value |-> None, msgs |-> <<>>, heartrails |-> 0, probes |-> 0, lookups |-> 0,
   failed |-> FALSE, raised |-> FALSE, prefixes |-> <<>>, results |-> <<>>,
   page |-> "none", shown |-> 0, scan |-> "none", last_probe |-> "none",
   rejected |-> {}, hr_postal |-> 0, locality |-> <<>>, h |-> 0]

NoCall ==
  [op |-> "none", input |-> <<>>, called |-> FALSE, hit |-> FALSE, sent |-> <<>>,
   resp |-> NoResponse, value |-> None, msgs |-> <<>>, page |-> "nothing"]

\* st.session_state before the settings page has run: no key is set
NoSession == [search_mode |-> "unset", max_results |-> 0]

\* no function has been applied
NoCalc == [op |-> "none"]

\* postal_codes.db does not exist; runs counts the runs of the import and
\* latest is the table the last successful run read
NoDb == [exists |-> FALSE, rows |-> <<>>, runs |-> 0, latest |-> <<>>]

InitLookup ==
  /\ cache = <<>>
  /\ log = <<>>
  /\ last = NoCall
  /\ search = NoSearch
  /\ session = NoSession
  /\ calc = NoCalc
  /\ db = NoDb

NextLookup == GetAddress \/ ClearCache

\* the service called directly, with any input
SpecLookup == InitLookup /\ [][NextLookup]_vars

NextPage == PostalToAddressSearch \/ ClearCache

\* the service called through the postal-code page
SpecPage == InitLookup /\ [][NextPage]_vars

\* search_postal_code_by_address of postal_data.py, one call
SearchSample ==
  /\ search.pc = "idle"
  /\ \E address \in SearchInputs :
       LET r == search_sample(address)
       IN  search' = [NoSearch EXCEPT !.variant = "sample", !.address = address,
                                      !.pc = "done", !.exit = r.exit,
                                      !.value = r.value, !.lookups = r.lookups,
                                      !.results = r.results]
  /\ UNCHANGED <<cache, log, last, session, calc, db>>

\* the end of _search_with_zipcloud_reverse, after the loop
scan_result(s) ==
  IF s.results # <<>>
    THEN [s EXCEPT !.pc = "done", !.exit = "zipcloud",
                   !.value = ListValue(first_ten(sort_by_score(s.results))),
                   !.msgs = @ \o <<"success_found">>]
    ELSE [s EXCEPT !.pc = "done", !.exit = "zipcloud", !.value = None,
                   !.msgs = @ \o <<"warning_not_found">>]

\* search_postal_code_by_address of postal_data_clean.py, from the call to its
\* return or to the first probe of the scan.  msgs: "info_heartrails" and
\* "info_zipcloud" (st.info), "warning_unidentified" (st.warning 都道府県または
\* 市区町村が特定できませんでした), "success_found" (st.success), "warning_not_found"
\* (st.warning), "error_search" (st.error 検索エラー)
search_api_start(address, resp, h) ==
  LET hr == search_with_heartrails_api(address, resp)
      called == [NoSearch EXCEPT !.variant = "api", !.address = address,
                                 !.heartrails = 1, !.failed = call_failed(resp),
                                 !.hr_postal = locations_with_postal(resp),
                                 !.msgs = <<"info_heartrails">>]
      pc == extract_prefecture_city(address)
  IN  IF too_short(address)
        THEN [NoSearch EXCEPT !.variant = "api", !.address = address,
                              !.pc = "done", !.exit = "too_short"]
      ELSE IF hr # None
        THEN [called EXCEPT !.pc = "done", !.exit = "heartrails", !.value = hr]
      ELSE IF pc.prefecture = <<>> \/ pc.city = <<>>
        THEN [called EXCEPT !.pc = "done", !.exit = "unidentified",
                            !.msgs = @ \o <<"info_zipcloud", "warning_unidentified">>]
      ELSE [called EXCEPT !.pc = "scan", !.scan = "zipcloud",
                          !.msgs = @ \o <<"info_zipcloud">>,
                          !.prefixes = postal_prefixes(pc.prefecture, pc.city, h)]

\* how a probe went: the request raised (timeout, connection error), or not
probe_kind(resp) == IF resp.kind = "exception" THEN "transport" ELSE "other"

\* the answers HeartRails can give to a search: none when it is not asked
HeartRailsAnswersTo(address) ==
  IF too_short(address) THEN {NoResponse} ELSE HeartRailsResponses

SearchApi ==
  /\ search.pc = "idle"
  /\ \E address \in SearchInputs :
       \E resp \in HeartRailsAnswersTo(address), h \in HashValues :
         search' = search_api_start(address, resp, h)
  /\ UNCHANGED <<cache, log, last, session, calc, db>>

\* one probe of the scan and, after the last one, the end of the function
probe_and_continue(s, resp) ==
  LET step == zipcloud_probe(s.address, pattern_at(s.prefixes, s.probes), s.results, resp)
      after == [s EXCEPT !.probes = @ + 1, !.results = step.results,
                         !.failed = @ \/ call_failed(resp),
                         !.last_probe = probe_kind(resp),
                         !.rejected = @ \cup probe_rejects(s.address, resp)]
  IN  IF step.stop
        THEN [after EXCEPT !.pc = "done", !.exit = "zipcloud_error", !.value = None,
                           !.msgs = @ \o <<"error_search">>]
      ELSE IF after.probes = max_check(s.prefixes) THEN scan_result(after)
      ELSE after

Probe ==
  /\ search.pc = "scan"
  /\ search.variant = "api"
  /\ \E resp \in ProbeResponses(search.probes) :
       search' = probe_and_continue(search, resp)
  /\ UNCHANGED <<cache, log, last, session, calc, db>>

\* the next interaction reruns the script: the finished search's locals are gone
Rerun ==
  /\ search.pc = "done"
  /\ search' = NoSearch
  /\ UNCHANGED <<cache, log, last, session, calc, db>>


(***************************************************************************)
(* The match scorers, each applied to a query and a target.                *)
(***************************************************************************)
\* s.replace(sub, "", 1): the first occurrence of sub removed
remove_first(s, sub) ==
  IF contains(s, sub)
    THEN SubSeq(s, 1, find(s, sub)) \o SubSeq(s, find(s, sub) + Len(sub) + 1, Len(s))
    ELSE s

\* re.search(r'([^都道府県]+?[市区町村])', s): the leftmost start, and from it the
\* shortest run of characters outside 都道府県 that ends before one of 市区町村;
\* <<>> when nothing matches
search_city_pattern(s) ==
  LET excluded == {"u90fd", "u9053", "u5e9c", "u770c"}
      suffix == {"u5e02", "u533a", "u753a", "u6751"}
      ends(i) == {j \in (i + 1)..Len(s) :
                    s[j] \in suffix /\ \A k \in i..(j - 1) : s[k] \notin excluded}
      starts == {i \in 1..Len(s) : ends(i) # {}}
  IN  IF starts = {} THEN <<>>
      ELSE SubSeq(s, Min(starts), Min(ends(Min(starts))))

\* _extract_address_components (postal_data_backup.py)
extract_address_components(address) ==
  LET found == {i \in 1..Len(prefectures) : contains(address, prefectures[i])}
      prefecture == IF found = {} THEN <<>> ELSE prefectures[Min(found)]
      after_pref == IF found = {} THEN address ELSE remove_first(address, prefecture)
      city == search_city_pattern(after_pref)
      after_city == IF city = <<>> THEN after_pref ELSE remove_first(after_pref, city)
  IN  [prefecture |-> prefecture, city |-> city, area |-> strip(after_city)]

\* _compare_component
compare_component(comp1, comp2) ==
  IF comp1 = <<>> \/ comp2 = <<>> THEN comp1 = comp2
  ELSE comp1 = comp2 \/ contains(comp2, comp1) \/ contains(comp1, comp2)

\* the strict _calculate_match_score of postal_data_backup.py (the second
\* definition of that name in the class, the one in effect), as num/den
calculate_match_score_strict(query, target) ==
  LET query_clean == replace_char(replace_char(query, " "), "u3000")
      target_clean == replace_char(replace_char(target, " "), "u3000")
      query_parts == extract_address_components(query_clean)
      target_parts == extract_address_components(target_clean)
      prefecture_match == compare_component(query_parts.prefecture, target_parts.prefecture)
      city_match == compare_component(query_parts.city, target_parts.city)
      area_match == compare_component(query_parts.area, target_parts.area)
  IN  IF query = <<>> \/ target = <<>> THEN [num |-> 0, den |-> 1]
      ELSE IF query_clean = target_clean THEN [num |-> 1, den |-> 1]
      ELSE IF contains(target_clean, query_clean) THEN [num |-> 95, den |-> 100]
      ELSE IF contains(query_clean, target_clean) THEN [num |-> 9, den |-> 10]
      ELSE IF ~prefecture_match THEN [num |-> 1, den |-> 10]
      ELSE IF ~city_match THEN [num |-> 2, den |-> 10]
      ELSE IF area_match THEN [num |-> 85, den |-> 100]
      ELSE IF /\ query_parts.area # <<>>
              /\ target_parts.area # <<>>
              /\ \/ contains(target_parts.area, query_parts.area)
                 \/ contains(query_parts.area, target_parts.area)
        THEN [num |-> 75, den |-> 100]
      ELSE [num |-> 3, den |-> 10]

\* the strings the scorers are applied to
ScoreInputs ==
  {
    \* the empty string
    <<>>,
    \* 東京都千代田区神田
    <<"u6771", "u4eac", "u90fd", "u5343", "u4ee3", "u7530", "u533a", "u795e", "u7530">>,
    \* 東京都千代田区外神田
    <<"u6771", "u4eac", "u90fd", "u5343", "u4ee3", "u7530", "u533a", "u5916", "u795e", "u7530">>,
    \* one space
    <<" ">>,
    \* one full-width space
    <<"u3000">>,
    \* space, full-width space, space
    <<" ", "u3000", " ">>,
    \* a
    <<"a">>,
    \* ab
    <<"a", "b">>,
    \* a b
    <<"a", " ", "b">>,
    \* ba
    <<"b", "a">>,
    \* 東京都千代田区
    <<"u6771", "u4eac", "u90fd", "u5343", "u4ee3", "u7530", "u533a">>,
    \* 東京都千代田区丸の内
    <<"u6771", "u4eac", "u90fd", "u5343", "u4ee3", "u7530", "u533a", "u4e38", "u306e", "u5185">>,
    \* 千代田区東京都丸の内
    <<"u5343", "u4ee3", "u7530", "u533a", "u6771", "u4eac", "u90fd", "u4e38", "u306e", "u5185">>,
    \* 東京都千代田区大手町
    <<"u6771", "u4eac", "u90fd", "u5343", "u4ee3", "u7530", "u533a", "u5927", "u624b", "u753a">>,
    \* 東京都港区新橋
    <<"u6771", "u4eac", "u90fd", "u6e2f", "u533a", "u65b0", "u6a4b">>,
    \* 大阪府大阪市北区梅田
    <<"u5927", "u962a", "u5e9c", "u5927", "u962a", "u5e02", "u5317", "u533a", "u6885", "u7530">>,
    \* 東京都 千代田区
    <<"u6771", "u4eac", "u90fd", " ", "u5343", "u4ee3", "u7530", "u533a">>,
    \* 千代田区丸の内
    <<"u5343", "u4ee3", "u7530", "u533a", "u4e38", "u306e", "u5185">>
  }

\* _calculate_match_score of postal_data.py applied
ScoreSample ==
  /\ calc = NoCalc
  /\ \E query \in ScoreInputs, target \in ScoreInputs :
       calc' = [op |-> "sample", query |-> query, target |-> target,
                score |-> calculate_match_score(query, target)]
  /\ UNCHANGED <<cache, log, last, search, session, db>>

\* _calculate_simple_match_score applied
ScoreSimple ==
  /\ calc = NoCalc
  /\ \E query \in ScoreInputs, target \in ScoreInputs :
       calc' = [op |-> "simple", query |-> query, target |-> target,
                score |-> calculate_simple_match_score(query, target)]
  /\ UNCHANGED <<cache, log, last, search, session, db>>

\* the strict _calculate_match_score applied
ScoreStrict ==
  /\ calc = NoCalc
  /\ \E query \in ScoreInputs, target \in ScoreInputs :
       calc' = [op |-> "strict", query |-> query, target |-> target,
                score |-> calculate_match_score_strict(query, target)]
  /\ UNCHANGED <<cache, log, last, search, session, db>>

NextScore == ScoreSample \/ ScoreSimple \/ ScoreStrict

\* the scorers as functions of their two arguments: one application of one
\* scorer per behaviour
SpecScore == InitLookup /\ [][NextScore]_vars

(***************************************************************************)
(* The local store (postal_database.py).                                   *)
(***************************************************************************)
\* successful and failed runs of download_and_setup_database that are followed
MaxRuns == 2

\* a missing town of the CSV file, as pandas reads it
NaN == <<"nan">>

\* one line of KEN_ALL.CSV with the columns the import uses; the readings are
\* copied as they are
CsvRow(postal_code, prefecture, city, town) ==
  [postal_code |-> postal_code, prefecture |-> prefecture, city |-> city, town |-> town,
   prefecture_kana |-> <<"uff76">>, city_kana |-> <<"uff85">>, town_kana |-> <<"uff76">>]

\* pd.read_csv reads the postal_code column as integers and SQLite stores an
\* integer bound to a TEXT column as its decimal text: leading zeros are gone
int_text(digits) ==
  LET nonzero == {i \in 1..Len(digits) : digits[i] # "0"}
  IN  IF digits = <<>> THEN <<>>
      ELSE IF nonzero = {} THEN <<"0">>
      ELSE SubSeq(digits, Min(nonzero), Len(digits))

Import_A ==
  <<
     \* 0600000 北海道 札幌市中央区 (no town)
     CsvRow(<<"0", "6", "0", "0", "0", "0", "0">>, <<"u5317", "u6d77", "u9053">>, <<"u672d", "u5e4c", "u5e02", "u4e2d", "u592e", "u533a">>, NaN),
     \* 1000001 東京都 千代田区 千代田
     CsvRow(<<"1", "0", "0", "0", "0", "0", "1">>, <<"u6771", "u4eac", "u90fd">>, <<"u5343", "u4ee3", "u7530", "u533a">>, <<"u5343", "u4ee3", "u7530">>),
     \* 6040000 京都府 京都市中京区 (no town)
     CsvRow(<<"6", "0", "4", "0", "0", "0", "0">>, <<"u4eac", "u90fd", "u5e9c">>, <<"u4eac", "u90fd", "u5e02", "u4e2d", "u4eac", "u533a">>, NaN)
  >>

Import_B ==
  <<
     \* 1050004 東京都 港区 新橋
     CsvRow(<<"1", "0", "5", "0", "0", "0", "4">>, <<"u6771", "u4eac", "u90fd">>, <<"u6e2f", "u533a">>, <<"u65b0", "u6a4b">>),
     \* 1000000 東京都 千代田区 (no town)
     CsvRow(<<"1", "0", "0", "0", "0", "0", "0">>, <<"u6771", "u4eac", "u90fd">>, <<"u5343", "u4ee3", "u7530", "u533a">>, NaN),
     \* 1066101 東京都 港区 A
     CsvRow(<<"1", "0", "6", "6", "1", "0", "1">>, <<"u6771", "u4eac", "u90fd">>, <<"u6e2f", "u533a">>, <<"A">>)
  >>

\* the tables the download may deliver
Imports == {Import_A, Import_B}

\* how a run of download_and_setup_database may go: the download or the
\* unpacking raises, or a table is read
DownloadOutcomes == {[ok |-> FALSE]} \cup {[ok |-> TRUE, df |-> d] : d \in Imports}

\* the row create_database inserts for one line of the data frame
inserted_row(row) ==
  LET town == IF row.town # NaN THEN row.town ELSE <<>>
  IN  [postal_code |-> int_text(row.postal_code),
       prefecture |-> row.prefecture,
       city |-> row.city,
       town |-> town,
       prefecture_kana |-> row.prefecture_kana,
       city_kana |-> row.city_kana,
       town_kana |-> row.town_kana,
       full_address |-> row.prefecture \o row.city \o town]

\* create_database: CREATE TABLE IF NOT EXISTS, then one INSERT per line
create_database(store, df) ==
  [exists |-> TRUE, rows |-> store.rows \o [j \in 1..Len(df) |-> inserted_row(df[j])]]

\* download_and_setup_database: the store after the run
download_and_setup_database(store, outcome) ==
  IF outcome.ok THEN create_database(store, outcome.df) ELSE store

\* ASCII letters as LIKE compares them
like_fold(c) == IF c = "A" THEN "a" ELSE IF c = "B" THEN "b" ELSE c

\* text LIKE pattern, as SQLite evaluates it: % is any run of characters, _ is
\* any one character, ASCII letters match without regard to case
RECURSIVE like(_, _)
like(text, pattern) ==
  IF pattern = <<>> THEN text = <<>>
  ELSE IF pattern[1] = "%"
    THEN like(text, Tail(pattern)) \/ (text # <<>> /\ like(Tail(text), pattern))
  ELSE IF text = <<>> THEN FALSE
  ELSE IF pattern[1] = "_" THEN like(Tail(text), Tail(pattern))
  ELSE like_fold(pattern[1]) = like_fold(text[1]) /\ like(Tail(text), Tail(pattern))

\* the CASE of the ORDER BY clause
order_tier(row, address) ==
  IF row.full_address = address THEN 1
  ELSE IF like(row.full_address, address \o <<"%">>) THEN 2
  ELSE 3

\* row a sorts before row b: ORDER BY CASE ..., LENGTH(full_address)
order_before(a, b, address) ==
  \/ order_tier(a, address) < order_tier(b, address)
  \/ /\ order_tier(a, address) = order_tier(b, address)
     /\ Len(a.full_address) < Len(b.full_address)

\* one row put into an ordered list, after the rows it does not sort before
insert_ordered(sorted, x, address) ==
  LET before == {i \in 1..Len(sorted) : ~order_before(x, sorted[i], address)}
      n == IF before = {} THEN 0 ELSE Max(before)
  IN  SubSeq(sorted, 1, n) \o <<x>> \o SubSeq(sorted, n + 1, Len(sorted))

\* the ORDER BY of the query; rows with equal keys stay in insertion order
RECURSIVE order_rows(_, _)
order_rows(rs, address) ==
  IF rs = <<>> THEN <<>>
  ELSE insert_ordered(order_rows(SubSeq(rs, 1, Len(rs) - 1), address), rs[Len(rs)], address)

\* LIMIT ?: a negative limit is no limit
sql_limit(rs, limit) ==
  IF limit < 0 THEN rs ELSE SubSeq(rs, 1, Min({limit, Len(rs)}))

\* search_by_address
search_by_address(store, address, limit) ==
  LET selected == SelectSeq(store.rows, LAMBDA row :
                    like(row.full_address, <<"%">> \o address \o <<"%">>))
      fetched == sql_limit(order_rows(selected, address), limit)
  IN  IF ~store.exists THEN <<>>
      ELSE [j \in 1..Len(fetched) |->
              [postal_code |-> SubSeq(fetched[j].postal_code, 1,
                                      Min({3, Len(fetched[j].postal_code)}))
                                 \o <<"-">>
                                 \o SubSeq(fetched[j].postal_code, 4,
                                           Len(fetched[j].postal_code)),
               prefecture |-> fetched[j].prefecture,
               city |-> fetched[j].city,
               town |-> fetched[j].town,
               full_address |-> fetched[j].full_address,
               source |-> "local DB"]]   \* the source text is ローカルDB

\* the addresses the store is asked for
DbQueries ==
  {
    \* the empty string
    <<>>,
    \* 京都
    <<"u4eac", "u90fd">>,
    \* 東京都千代田区
    <<"u6771", "u4eac", "u90fd", "u5343", "u4ee3", "u7530", "u533a">>,
    \* 東京_
    <<"u6771", "u4eac", "_">>,
    \* a
    <<"a">>,
    \* %
    <<"%">>,
    \* 札幌
    <<"u672d", "u5e4c">>,
    \* 大阪
    <<"u5927", "u962a">>
  }

\* the limits the store is asked with
DbLimits == {-1, 0, 1, 2, 10}

\* download_and_setup_database, one run
DownloadAndSetup ==
  /\ db.runs < MaxRuns
  /\ \E outcome \in DownloadOutcomes :
       LET store == download_and_setup_database(db, outcome)
       IN  db' = [exists |-> store.exists, rows |-> store.rows, runs |-> db.runs + 1,
                  latest |-> IF outcome.ok THEN outcome.df ELSE db.latest]
  /\ UNCHANGED <<cache, log, last, search, session, calc>>

\* search_by_address, one call
SearchByAddress ==
  /\ \E address \in DbQueries, limit \in DbLimits :
       calc' = [op |-> "search_by_address", address |-> address, limit |-> limit,
                existed |-> db.exists, rows |-> search_by_address(db, address, limit)]
  /\ UNCHANGED <<cache, log, last, search, session, db>>

NextDb == DownloadAndSetup \/ SearchByAddress

\* the local store, built, updated and searched
SpecDb == InitLookup /\ [][NextDb]_vars

(***************************************************************************)
(* The pages: settings (settings.py) and the address tab of the search     *)
(* page (app.py).                                                          *)
(***************************************************************************)
\* the radio button's three entries
DataSources == {"sample", "api", "database"}

\* positions of the slider 最大表示件数 (5 to 20) that are tried
MaxResultsChoices == {5, 10, 20}

\* get_search_mode: st.session_state.get("search_mode", "sample")
get_search_mode(state) ==
  IF state.search_mode = "unset" THEN "sample" ELSE state.search_mode

\* setup_postal_database: the store after the page has run.  press is the
\* build or update button; a successful run ends in st.rerun(), which shows
\* the page again with no button pressed
setup_postal_database(store, press, outcome) ==
  IF press THEN download_and_setup_database(store, outcome) ELSE store

\* the search_mode show_settings_page leaves in the session
selected_mode(data_source, has_database, store) ==
  IF data_source = "sample" THEN "sample"
  ELSE IF data_source = "api" THEN "api"
  ELSE IF has_database
    THEN IF store.exists THEN "database" ELSE "sample"
  ELSE "api"

\* show_settings_page, one run of the script with the settings page selected:
\* has_database is HAS_DATABASE (whether postal_database could be imported)
ShowSettingsPage ==
  /\ \E data_source \in DataSources, max_results \in MaxResultsChoices,
        has_database \in BOOLEAN, press \in BOOLEAN, outcome \in DownloadOutcomes :
       LET runs_import == data_source = "database" /\ has_database /\ press
           store == IF runs_import THEN setup_postal_database(db, press, outcome) ELSE db
       IN  /\ runs_import => db.runs < MaxRuns
           /\ db' = [exists |-> store.exists, rows |-> store.rows,
                     runs |-> IF runs_import THEN db.runs + 1 ELSE db.runs,
                     latest |-> IF runs_import /\ outcome.ok THEN outcome.df ELSE db.latest]
           /\ session' = [search_mode |-> selected_mode(data_source, has_database, store),
                          max_results |-> max_results]
  /\ search' = NoSearch
  /\ UNCHANGED <<cache, log, last, calc>>

\* address_to_postal_search with an address in the text field: the service is
\* the PostalCodeService of postal_data.py (app.py line 10)
address_page(address) ==
  LET r == search_sample(address)
      ran == [NoSearch EXCEPT !.variant = "sample", !.address = address,
                              !.pc = "done", !.exit = r.exit, !.value = r.value,
                              !.lookups = r.lookups, !.results = r.results]
  IN  IF address # <<>> /\ Len(strip(address)) >= MinAddressLen
        THEN IF r.value # None
               THEN [ran EXCEPT !.page = "results", !.shown = Len(r.value.list)]
               ELSE [ran EXCEPT !.page = "not_found"]
      ELSE IF address # <<>>
        THEN [NoSearch EXCEPT !.address = address, !.pc = "done", !.page = "too_short"]
      ELSE [NoSearch EXCEPT !.pc = "done", !.page = "nothing"]

AddressToPostalSearch ==
  /\ \E address \in SearchInputs : search' = address_page(address)
  /\ UNCHANGED <<cache, log, last, session, calc, db>>

NextApp == ShowSettingsPage \/ AddressToPostalSearch

\* the application: settings chosen, addresses searched
SpecApp == InitLookup /\ [][NextApp]_vars

(***************************************************************************)
(* Prefecture and city extraction, applied to an address.                  *)
(***************************************************************************)
\* pieces the addresses are put together from
AddressPieces ==
  {
    \* nothing
    <<>>,
    \* 東京都
    <<"u6771", "u4eac", "u90fd">>,
    \* 京都府
    <<"u4eac", "u90fd", "u5e9c">>,
    \* 大阪府
    <<"u5927", "u962a", "u5e9c">>,
    \* 鹿児島県
    <<"u9e7f", "u5150", "u5cf6", "u770c">>,
    \* 北海道
    <<"u5317", "u6d77", "u9053">>,
    \* 千代田区
    <<"u5343", "u4ee3", "u7530", "u533a">>,
    \* ab
    <<"a", "b">>
  }

\* what follows the pieces
AddressTails ==
  {
    \* nothing
    <<>>,
    \* 府中市
    <<"u5e9c", "u4e2d", "u5e02">>,
    \* 新宿区市谷
    <<"u65b0", "u5bbf", "u533a", "u5e02", "u8c37">>,
    \* 丸の内 1
    <<"u4e38", "u306e", "u5185", " ", "1">>
  }

\* the addresses: two pieces, with or without a space between, and a tail
ExtractInputs ==
  {a \o gap \o b \o tail : a \in AddressPieces, b \in AddressPieces,
                           gap \in {<<>>, <<" ">>}, tail \in AddressTails}

\* the prefecture loop of search_postal_code_by_address (postal_data.py) and
\* _extract_prefecture_city (postal_data_clean.py), applied to one address
ExtractPrefecture ==
  /\ calc = NoCalc
  /\ \E address \in ExtractInputs :
       calc' = [op |-> "extract", address |-> address,
                sample |-> target_prefecture(address),
                api |-> extract_prefecture_city(address)]
  /\ UNCHANGED <<cache, log, last, search, session, db>>

NextExtract == ExtractPrefecture

\* the extraction as a function of the address: one application per behaviour
SpecExtract == InitLookup /\ [][NextExtract]_vars

(***************************************************************************)
(* _get_postal_patterns_extended, in both variants, applied to a locality. *)
(***************************************************************************)
\* for suffix in range(0, 100)
PerPrefixBackup == 100

\* return patterns[:50], and for i in range(50)
MaxPatterns == 50

\* i*13 % 10000
FallbackStride == 13

\* prefecture_ranges of postal_data_backup.py: the table without 大阪府
prefecture_ranges_backup ==
  SelectSeq(prefecture_ranges, LAMBDA r : r.prefecture # <<"u5927", "u962a", "u5e9c">>)

\* whether the locality is in the backup table
in_backup_table(prefecture, city) ==
  \E r \in 1..Len(prefecture_ranges_backup) :
    /\ prefecture_ranges_backup[r].prefecture = prefecture
    /\ prefecture_ranges_backup[r].city = city

\* the prefixes of a locality of the backup table
backup_prefixes(prefecture, city) ==
  prefecture_ranges_backup[
    Min({r \in 1..Len(prefecture_ranges_backup) :
           /\ prefecture_ranges_backup[r].prefecture = prefecture
           /\ prefecture_ranges_backup[r].city = city})].ranges

\* len(patterns[:50]) of postal_data_backup.py
backup_pattern_count(prefecture, city) ==
  IF in_backup_table(prefecture, city)
    THEN Min({MaxPatterns, Len(backup_prefixes(prefecture, city)) * PerPrefixBackup})
    ELSE MaxPatterns

\* patterns[n] of postal_data_backup.py, n from 0; h is hash(prefecture + city)
backup_pattern_at(prefecture, city, h, n) ==
  IF in_backup_table(prefecture, city)
    THEN backup_prefixes(prefecture, city)[(n \div PerPrefixBackup) + 1]
           \o format_04d(n % PerPrefixBackup)
    ELSE format_03d(((h % 900) + 100) + n) \o format_04d((n * FallbackStride) % 10000)

\* the localities the patterns are generated for
Localities ==
  {
    \* 東京都 千代田区
    [prefecture |-> <<"u6771", "u4eac", "u90fd">>, city |-> <<"u5343", "u4ee3", "u7530", "u533a">>],
    \* 東京都 港区
    [prefecture |-> <<"u6771", "u4eac", "u90fd">>, city |-> <<"u6e2f", "u533a">>],
    \* 大阪府 大阪市
    [prefecture |-> <<"u5927", "u962a", "u5e9c">>, city |-> <<"u5927", "u962a", "u5e02">>],
    \* 北海道 札幌市
    [prefecture |-> <<"u5317", "u6d77", "u9053">>, city |-> <<"u672d", "u5e4c", "u5e02">>],
    \* 千葉県 新宿
    [prefecture |-> <<"u5343", "u8449", "u770c">>, city |-> <<"u65b0", "u5bbf">>]
  }

\* positions in the list of postal_data_clean.py that are looked at, besides
\* the last one
PatternIndices == {0, 1, 49, 50, 9999}

\* _get_postal_patterns_extended of postal_data_clean.py: one of its patterns
PatternsClean ==
  /\ calc = NoCalc
  /\ \E loc \in Localities, h \in HashValues :
       LET prefixes == postal_prefixes(loc.prefecture, loc.city, h)
           count == Len(prefixes) * PerPrefix
       IN  \E n \in PatternIndices \cup {count - 1} :
             calc' = [op |-> "pattern", variant |-> "clean", locality |-> loc, h |-> h,
                      n |-> n, count |-> count, pattern |-> pattern_at(prefixes, n)]
  /\ UNCHANGED <<cache, log, last, search, session, db>>

\* _get_postal_patterns_extended of postal_data_backup.py: one of its patterns
PatternsBackup ==
  /\ calc = NoCalc
  /\ \E loc \in Localities, h \in HashValues :
       \E n \in 0..(backup_pattern_count(loc.prefecture, loc.city) - 1) :
         calc' = [op |-> "pattern", variant |-> "backup", locality |-> loc, h |-> h,
                  n |-> n, count |-> backup_pattern_count(loc.prefecture, loc.city),
                  pattern |-> backup_pattern_at(loc.prefecture, loc.city, h, n)]
  /\ UNCHANGED <<cache, log, last, search, session, db>>

NextPatterns == PatternsClean \/ PatternsBackup

\* the candidate lists as functions of the locality and the hash: one pattern
\* of one list per behaviour
SpecPatterns == InitLookup /\ [][NextPatterns]_vars

(***************************************************************************)
(* search_postal_code_by_address of postal_data_backup.py: a scan by       *)
(* _search_with_heartrails_api (which probes zipcloud, its name            *)
(* notwithstanding) and, when that returns nothing, a second scan by       *)
(* _search_with_zipcloud_reverse.                                          *)
(***************************************************************************)
\* if len(results) >= 10: break
ResultQuota == 10

\* the candidates one answered probe of _search_with_heartrails_api adds: the
\* results whose address holds the city
RECURSIVE retained_by_city(_, _, _, _)
retained_by_city(address, city, pattern, rs) ==
  IF rs = <<>> THEN <<>>
  ELSE LET result == rs[1]
           full_addr == result_full_address(result)
       IN  (IF contains(full_addr, city)
              THEN <<[postal_code |-> SubSeq(pattern, 1, 3) \o <<"-">>
                                        \o SubSeq(pattern, 4, Len(pattern)),
                      full_address |-> full_addr,
                      prefecture |-> dict_get(result, "address1"),
                      city |-> dict_get(result, "address2"),
                      town |-> dict_get(result, "address3"),
                      match_score |-> calculate_match_score_strict(address, full_addr),
                      source |-> "national postal data"]>>   \* 全国郵便番号データ
              ELSE <<>>)
           \o retained_by_city(address, city, pattern, Tail(rs))

\* one turn of the loop of _search_with_heartrails_api: `stop` when an
\* exception other than a RequestException leaves the loop for the outer
\* except, `checked` when the turn reaches the quota check
heartrails_scan_probe(address, city, pattern, results, resp) ==
  IF resp.kind = "exception"
    THEN [stop |-> FALSE, checked |-> FALSE, results |-> results]
  ELSE IF resp.status_code # 200
    THEN [stop |-> FALSE, checked |-> TRUE, results |-> results]
  ELSE IF resp.body.json = "invalid"
    THEN [stop |-> resp.body.raises # "RequestException", checked |-> FALSE,
          results |-> results]
  ELSE IF resp.body.json = "array"
    THEN [stop |-> TRUE, checked |-> FALSE, results |-> results]
  ELSE IF status_and_results(resp.body.data)
    THEN IF \E j \in 1..Len(resp.body.data.results.list) :
              resp.body.data.results.list[j] = NotADict
           THEN [stop |-> TRUE, checked |-> FALSE, results |-> results]
           ELSE [stop |-> FALSE, checked |-> TRUE,
                 results |-> results \o retained_by_city(address, city, pattern,
                                                         resp.body.data.results.list)]
  ELSE [stop |-> FALSE, checked |-> TRUE, results |-> results]

\* the hash is read only by the fallback
hash_used(loc, h) == IF in_backup_table(loc.prefecture, loc.city) THEN 0 ELSE h

\* search_postal_code_by_address of postal_data_backup.py, from the call to
\* its return or to the first probe.  msgs: "info_national" (st.info
\* 全国データベースで検索中), "warning_parse" (st.warning 住所解析失敗), and those of
\* the API variant
search_backup_start(address, h) ==
  LET loc == extract_prefecture_city(address)
      called == [NoSearch EXCEPT !.variant = "backup", !.address = address,
                                 !.msgs = <<"info_national">>]
  IN  IF too_short(address)
        THEN [NoSearch EXCEPT !.variant = "backup", !.address = address,
                              !.pc = "done", !.exit = "too_short"]
      ELSE IF loc.prefecture = <<>> \/ loc.city = <<>>
        THEN [called EXCEPT !.pc = "done", !.exit = "unidentified",
                            !.msgs = @ \o <<"warning_parse", "info_zipcloud",
                                            "warning_unidentified">>]
      ELSE [called EXCEPT !.pc = "scan", !.scan = "heartrails",
                          !.locality = loc, !.h = hash_used(loc, h)]

\* the addresses the backup variant is asked for
BackupInputs ==
  { <<"a">>,
    <<"a", "b">>,
    \* 東京都
    <<"u6771", "u4eac", "u90fd">>,
    \* 東京都千代田区
    <<"u6771", "u4eac", "u90fd", "u5343", "u4ee3", "u7530", "u533a">>,
    \* 東京都千代田区丸の内
    <<"u6771", "u4eac", "u90fd", "u5343", "u4ee3", "u7530", "u533a", "u4e38", "u306e", "u5185">>,
    \* 千葉県 新宿
    <<"u5343", "u8449", "u770c", " ", "u65b0", "u5bbf">> }

SearchBackup ==
  /\ search.pc = "idle"
  /\ \E address \in BackupInputs, h \in HashValues :
       search' = search_backup_start(address, h)
  /\ UNCHANGED <<cache, log, last, session, calc, db>>

\* _search_with_zipcloud_reverse begins after _search_with_heartrails_api
\* returned None; its address was parsed before, so it goes on to its loop
start_second_scan(s) ==
  [s EXCEPT !.scan = "zipcloud", !.probes = 0, !.results = <<>>,
            !.last_probe = "none", !.msgs = @ \o <<"info_zipcloud">>]

\* one probe of the first scan and, when the loop ends with it, what follows
heartrails_scan_continue(s, resp) ==
  LET pattern == backup_pattern_at(s.locality.prefecture, s.locality.city, s.h, s.probes)
      step == heartrails_scan_probe(s.address, s.locality.city, pattern, s.results, resp)
      after == [s EXCEPT !.probes = @ + 1, !.results = step.results,
                         !.failed = @ \/ call_failed(resp),
                         !.last_probe = probe_kind(resp)]
      loop_ends == \/ after.probes = backup_pattern_count(s.locality.prefecture,
                                                         s.locality.city)
                   \/ step.checked /\ Len(step.results) >= ResultQuota
  IN  IF step.stop
        THEN start_second_scan([after EXCEPT !.msgs = @ \o <<"error_search">>])
      ELSE IF ~loop_ends THEN after
      ELSE IF after.results # <<>>
        THEN [after EXCEPT !.pc = "done", !.exit = "heartrails_scan",
                           !.value = ListValue(first_ten(sort_by_score(after.results))),
                           !.msgs = @ \o <<"success_found">>]
      ELSE start_second_scan([after EXCEPT !.msgs = @ \o <<"warning_not_found">>])

\* one probe of the second scan and, after the last one, the end of the function
zipcloud_scan_continue(s, resp) ==
  LET pattern == backup_pattern_at(s.locality.prefecture, s.locality.city, s.h, s.probes)
      step == zipcloud_probe(s.address, pattern, s.results, resp)
      after == [s EXCEPT !.probes = @ + 1, !.results = step.results,
                         !.failed = @ \/ call_failed(resp),
                         !.last_probe = probe_kind(resp),
                         !.rejected = @ \cup probe_rejects(s.address, resp)]
  IN  IF step.stop
        THEN [after EXCEPT !.pc = "done", !.exit = "zipcloud_error", !.value = None,
                           !.msgs = @ \o <<"error_search">>]
      ELSE IF after.probes = Min({MaxCheck, backup_pattern_count(s.locality.prefecture,
                                                                  s.locality.city)})
        THEN scan_result(after)
      ELSE after

ProbeBackup ==
  /\ search.pc = "scan"
  /\ search.variant = "backup"
  /\ \E resp \in ProbeResponses(search.probes) :
       search' = IF search.scan = "heartrails"
                   THEN heartrails_scan_continue(search, resp)
                   ELSE zipcloud_scan_continue(search, resp)
  /\ UNCHANGED <<cache, log, last, session, calc, db>>

NextSearch == SearchSample \/ SearchApi \/ Probe \/ SearchBackup \/ ProbeBackup \/ Rerun

\* the address search, in its three variants
SpecSearch == InitLookup /\ [][NextSearch]_vars

NextScan == SearchApi \/ Probe \/ SearchBackup \/ ProbeBackup

\* a scan that has begun goes on: every probe returns or runs into its timeout
\* (timeout=3, timeout=5).  This is weak fairness of the probes, with ENABLED
\* written out: a probe is possible exactly while search.pc = "scan"
ProbesGoOn == []<>(search.pc # "scan") \/ []<><<Probe \/ ProbeBackup>>_vars

\* the searches of the API variant and of the backup variant, each scan going on
SpecScan == InitLookup /\ [][NextScan]_vars /\ ProbesGoOn

(***************************************************************************)
(* Notions of the claims, stated apart from the code's own checks.         *)
(***************************************************************************)
Separators == {"-", "u2212"}

\* the characters of s that are no separator, in order
WithoutSeparators(s) == SelectSeq(s, LAMBDA x : x \notin Separators)

\* a decimal digit character, ASCII or not
IsDigitChar(c) == c \in AsciiDigits \cup FullWidthDigits

\* exactly 7 ASCII digits, with separators anywhere
WellFormed(s) ==
  /\ Len(WithoutSeparators(s)) = 7
  /\ \A i \in 1..7 : WithoutSeparators(s)[i] \in AsciiDigits

\* the last operation ran the body of the lookup (it was not served from the cache)
LookupRan == last.op = "lookup" /\ last.called /\ ~last.hit

(***************************************************************************)
(* C1: an input whose characters, separators removed, are not exactly 7    *)
(* digits is rejected: the lookup returns None and sends no request.       *)
(* "Digit" is read as the code reads it (str.isdigit); the ASCII reading   *)
(* is claim C2.                                                            *)
(***************************************************************************)
C1_MalformedRejected ==
  (/\ last.op = "lookup"
   /\ last.called
   /\ \/ Len(WithoutSeparators(last.input)) # 7
      \/ \E i \in 1..Len(WithoutSeparators(last.input)) :
           ~IsDigitChar(WithoutSeparators(last.input)[i]))
  => (last.value = None /\ last.sent = <<>>)

\* a 7-character input holding a letter was looked up and rejected
C1_Witness ==
  /\ LookupRan
  /\ Len(WithoutSeparators(last.input)) = 7
  /\ \E i \in 1..7 : ~IsDigitChar(WithoutSeparators(last.input)[i])
  /\ last.value = None
  /\ last.sent = <<>>

(***************************************************************************)
(* C2: every zipcode parameter sent to the endpoint is exactly 7 ASCII     *)
(* digits.                                                                 *)
(***************************************************************************)
C2_SentSevenAsciiDigits ==
  \A i \in 1..Len(last.sent) :
    /\ Len(last.sent[i].zipcode) = 7
    /\ \A j \in 1..Len(last.sent[i].zipcode) : last.sent[i].zipcode[j] \in AsciiDigits

(***************************************************************************)
(* C3: two well-formed inputs with the same 7 digits, differing only in    *)
(* their separators, send the same zipcode parameter, and the lookup gives *)
(* the same outcome for the same answer of the service.                    *)
(***************************************************************************)
C3_SeparatorsIrrelevant ==
  \A k \in DOMAIN log :
    (/\ LookupRan
     /\ k # last.input
     /\ WellFormed(k)
     /\ WellFormed(last.input)
     /\ WithoutSeparators(k) = WithoutSeparators(last.input))
    => /\ Len(log[k].sent) = 1
       /\ Len(last.sent) = 1
       /\ log[k].sent[1].zipcode = last.sent[1].zipcode
       /\ (log[k].resp = last.resp => cache[k].value = last.value)

\* the same code was looked up with an ASCII hyphen and with a minus sign, the
\* service answered both alike, and both calls returned the same record
C3_Witness ==
  \E k \in DOMAIN log :
    /\ LookupRan
    /\ k # last.input
    /\ WellFormed(k)
    /\ WellFormed(last.input)
    /\ WithoutSeparators(k) = WithoutSeparators(last.input)
    /\ \E i \in 1..Len(k) : k[i] = "-"
    /\ \E i \in 1..Len(last.input) : last.input[i] = "u2212"
    /\ log[k].resp = last.resp
    /\ last.value # None
    /\ cache[k].value = last.value

(***************************************************************************)
(* C4: within one cache lifetime, two calls whose inputs normalize to the  *)
(* same 7-digit code return the same value, whatever the service answers.  *)
(* (cache[k].value is what every call with input k returned since the      *)
(* cache was last cleared.)                                                *)
(***************************************************************************)
C4_SameCodeSameRecord ==
  \A k \in DOMAIN cache :
    (/\ last.op = "lookup"
     /\ last.called
     /\ last.input \in DOMAIN cache
     /\ WellFormed(k)
     /\ WellFormed(last.input)
     /\ WithoutSeparators(k) = WithoutSeparators(last.input))
    => cache[k].value = last.value

(***************************************************************************)
(* C5: the value returned when the service reports no match differs from   *)
(* the value returned after a transport error.                             *)
(***************************************************************************)
ReportsNoMatch(resp) ==
  resp = HttpResponse(200, JsonObject([status |-> 200, results |-> ResultsNull]))

IsTransportFailure(resp) ==
  \/ resp.kind = "exception"
  \/ resp.kind = "response" /\ resp.status_code >= 400

C5_NotFoundDistinct ==
  \A k \in DOMAIN log :
    (LookupRan /\ ReportsNoMatch(last.resp) /\ IsTransportFailure(log[k].resp))
    => cache[k].value # last.value

(***************************************************************************)
(* C6: for HTTP 200 with status 200 and a non-empty results array (string  *)
(* fields), the record comes from the first result: postal_code is the     *)
(* digits as NNN-NNNN, prefecture/city/town are address1/2/3 or "" when    *)
(* absent, full_address is prefecture + city + town.                       *)
(***************************************************************************)
\* the field of a result, "" when absent
FieldOrEmpty(r, key) == IF key \in DOMAIN r THEN r[key] ELSE <<>>

\* a response the claim covers
IsSuccessWithResults(resp) ==
  /\ resp.kind = "response"
  /\ resp.status_code = 200
  /\ resp.body.json = "object"
  /\ "status" \in DOMAIN resp.body.data
  /\ resp.body.data.status = 200
  /\ "results" \in DOMAIN resp.body.data
  /\ "list" \in DOMAIN resp.body.data.results
  /\ resp.body.data.results.list # <<>>
  /\ resp.body.data.results.list[1] # NotADict
  /\ \A key \in DOMAIN resp.body.data.results.list[1] :
       resp.body.data.results.list[1][key] # JsonNull

C7_ExactlyOneGet ==
  (LookupRan /\ WellFormed(last.input))
  => /\ Len(last.sent) = 1
     /\ last.sent[1].url = base_url

\* a well-formed lookup whose only request failed in transport
C7_Witness ==
  /\ LookupRan
  /\ WellFormed(last.input)
  /\ last.resp = TransportError
  /\ Len(last.sent) = 1

(***************************************************************************)
(* C8: whatever the remote service does, the lookup and the address search *)
(* return normally, and every failed remote call is reported by an error   *)
(* message (st.error).                                                     *)
(***************************************************************************)
ErrorMessages == {"comm_error", "parse_error", "unexpected_error", "error_search"}

C8_FailuresReported ==
  (search.pc = "done" /\ search.failed)
  => /\ ~search.raised
     /\ \E i \in 1..Len(search.msgs) : search.msgs[i] \in ErrorMessages

(***************************************************************************)
(* C9: the address search rejects an input as too short exactly when it     *)
(* holds fewer than 2 non-whitespace characters, and a rejected input       *)
(* causes no table lookup and no remote call.                               *)
(***************************************************************************)
NonWhitespaceCount(s) == Cardinality({i \in 1..Len(s) : s[i] \notin WhitespaceChars})

C9_TooShortExactly ==
  search.variant # "none"
  => /\ (search.exit = "too_short") <=> (NonWhitespaceCount(search.address) < 2)
     /\ search.exit = "too_short"
          => /\ search.value = None
             /\ search.lookups = 0
             /\ search.heartrails = 0
             /\ search.probes = 0

\* an input of three characters, one of them no whitespace, was rejected
C9_Witness ==
  /\ search.pc = "done"
  /\ search.exit = "too_short"
  /\ Len(search.address) >= 2
  /\ NonWhitespaceCount(search.address) = 1

(***************************************************************************)
(* C10 as stated: for an address of at least 2 characters that holds no    *)
(* prefecture name, both variants return not found and raise no error.     *)
(***************************************************************************)
NoPrefectureIn(address) ==
  \A i \in 1..Len(prefectures) : ~contains(address, prefectures[i])

ReturnedList == search.pc = "done" /\ search.value # None

(***************************************************************************)
(* C11: every list a reverse search returns (sample search, HeartRails     *)
(* processing, zipcloud scan) is in non-increasing match_score order: no   *)
(* candidate has a higher score than the one before it.                    *)
(***************************************************************************)
C11_NonIncreasingScores ==
  ReturnedList
  => \A i \in 1..(Len(search.value.list) - 1) :
       ~score_gt(search.value.list[i + 1], search.value.list[i])

\* a scan retained a 0.95 candidate before a 1.0 candidate and returned them
\* the other way round
C11_Witness ==
  /\ ReturnedList
  /\ search.exit = "zipcloud"
  /\ Len(search.results) >= 2
  /\ score_gt(search.results[2], search.results[1])
  /\ score_gt(search.value.list[1], search.value.list[2])

\* how many candidates of rs score higher than x
CountHigher(rs, x) == Cardinality({i \in 1..Len(rs) : score_gt(rs[i], x)})

\* how many times x occurs in rs
CountOf(rs, x) == Cardinality({i \in 1..Len(rs) : rs[i] = x})

\* `top` holds n candidates of rs with the highest scores: it takes nothing
\* that rs does not hold, and no candidate left out scores higher than one taken
IsTopOf(top, rs, n) ==
  /\ Len(top) = n
  /\ \A i \in 1..Len(top) : CountOf(top, top[i]) <= CountOf(rs, top[i])
  /\ \A i \in 1..Len(rs) :
       CountHigher(top, rs[i]) = Min({n, CountHigher(rs, rs[i])})

(***************************************************************************)
(* C12: a reverse search returns None or a non-empty list of at most 10    *)
(* candidates, never an empty list; the sample search and the scan return  *)
(* None exactly when they retained nothing, and when they retained more    *)
(* than 10 candidates the list holds 10 of them with the highest scores.   *)
(***************************************************************************)
C12_NoneOrTopTen ==
  search.pc = "done"
  => /\ search.value # None
          => (Len(search.value.list) >= 1 /\ Len(search.value.list) <= 10)
     /\ search.exit \in {"sample", "zipcloud"}
          => ((search.value = None) <=> (search.results = <<>>))
     /\ (search.exit \in {"sample", "zipcloud"} /\ Len(search.results) > 10)
          => IsTopOf(search.value.list, search.results, 10)

\* a scan retained 12 candidates, the twelfth with a higher score than the
\* first, and returned 10
C12_Witness ==
  /\ search.pc = "done"
  /\ search.exit = "zipcloud"
  /\ Len(search.results) = 12
  /\ score_gt(search.results[12], search.results[1])
  /\ Len(search.value.list) = 10

\* a scorer has been applied
Scored == calc.op \in {"sample", "simple", "strict"}

(***************************************************************************)
(* C13: for every query and target, each of the three scorers returns a    *)
(* value s with 0 <= s <= 1.                                               *)
(***************************************************************************)
C13_ScoreInUnitInterval ==
  Scored
  => /\ calc.score.den > 0
     /\ calc.score.num >= 0
     /\ calc.score.num <= calc.score.den

\* the character-overlap scorer returned a value strictly between 0 and 1
C13_Witness ==
  /\ calc.op = "sample"
  /\ calc.score.num > 0
  /\ calc.score.num < calc.score.den

(***************************************************************************)
(* C14: for every non-empty string q, strings of spaces included, each     *)
(* scorer returns exactly 1.0 for score(q, q).                             *)
(***************************************************************************)
C14_SelfScoreIsOne ==
  (Scored /\ calc.query # <<>> /\ calc.target = calc.query)
  => calc.score.num = calc.score.den

(***************************************************************************)
(* C18: after any number of successful runs of the import, the table holds *)
(* exactly the rows of the most recent import: no row of an earlier import *)
(* and no row twice.                                                       *)
(***************************************************************************)
C18_RebuiltWholesale ==
  db.latest # <<>>
  => /\ Len(db.rows) = Len(db.latest)
     /\ \A j \in 1..Len(db.rows) :
          /\ db.rows[j].prefecture = db.latest[j].prefecture
          /\ db.rows[j].city = db.latest[j].city
          /\ db.rows[j].prefecture_kana = db.latest[j].prefecture_kana

\* the tier of a row for a query: equal, starting with it, other
TierOf(full_address, address) ==
  IF full_address = address THEN 1
  ELSE IF Len(address) <= Len(full_address)
          /\ SubSeq(full_address, 1, Len(address)) = address THEN 2
  ELSE 3

(***************************************************************************)
(* C19: search_by_address returns at most `limit` rows, each with a        *)
(* full_address containing the query, rows equal to the query first, rows  *)
(* starting with it second, the others last, shorter full_address first    *)
(* inside a tier; it returns an empty list when the store does not exist.  *)
(***************************************************************************)
C19_TieredSubstringSearch ==
  calc.op = "search_by_address"
  => /\ Len(calc.rows) <= calc.limit
     /\ \A j \in 1..Len(calc.rows) : contains(calc.rows[j].full_address, calc.address)
     /\ \A i, j \in 1..Len(calc.rows) :
          i < j
          => \/ TierOf(calc.rows[i].full_address, calc.address)
                  < TierOf(calc.rows[j].full_address, calc.address)
             \/ /\ TierOf(calc.rows[i].full_address, calc.address)
                     = TierOf(calc.rows[j].full_address, calc.address)
                /\ Len(calc.rows[i].full_address) <= Len(calc.rows[j].full_address)
     /\ ~calc.existed => calc.rows = <<>>

\* the search page has answered an address search
PageSearched == search.page \in {"results", "not_found"}

(***************************************************************************)
(* C15: the data source chosen on the settings page (search_mode) is the   *)
(* backend that answers the next address search of the search page.        *)
(***************************************************************************)
C15_SelectedBackendAnswers ==
  PageSearched => search.variant = get_search_mode(session)

(***************************************************************************)
(* C16: the search page never shows more candidates for one address search *)
(* than the maximum display count chosen on the settings page.             *)
(***************************************************************************)
C16_ShownWithinMaxResults ==
  (search.page = "results" /\ session.max_results # 0)
  => search.shown <= session.max_results

\* the positions, in the list of 47, of the names that occur in the address
NamesIn(address) ==
  {i \in 1..Len(prefectures) :
     \E k \in 1..Len(address) :
       /\ k + Len(prefectures[i]) - 1 <= Len(address)
       /\ SubSeq(address, k, k + Len(prefectures[i]) - 1) = prefectures[i]}

\* the name occurring in the address that comes first in the list
FirstNameIn(address) ==
  prefectures[CHOOSE i \in NamesIn(address) : \A j \in NamesIn(address) : i <= j]

\* the sample table of a prefecture, as a set of (postal code, address) entries
SampleEntries(prefecture) ==
  IF prefecture = <<"u6771", "u4eac", "u90fd">>
    THEN {sample_tokyo[k] : k \in 1..Len(sample_tokyo)}
  ELSE IF prefecture = <<"u5927", "u962a", "u5e9c">>
    THEN {sample_osaka[k] : k \in 1..Len(sample_osaka)}
  ELSE IF prefecture = <<"u795e", "u5948", "u5ddd", "u770c">>
    THEN {sample_kanagawa[k] : k \in 1..Len(sample_kanagawa)}
  ELSE {}

\* the sample variant detected a prefecture and searched its table
SampleSearched ==
  /\ search.variant = "sample"
  /\ search.pc = "done"
  /\ ~NonWhitespaceCount(search.address) < 2
  /\ NamesIn(search.address) # {}

(***************************************************************************)
(* C17: the sample variant returns None for every address whose detected   *)
(* prefecture is not 東京都, 大阪府 or 神奈川県, and every candidate it returns   *)
(* is an entry of the sample table of the detected prefecture.             *)
(***************************************************************************)
C17_SampleTablesOnly ==
  SampleSearched
  => /\ SampleEntries(FirstNameIn(search.address)) = {} => search.value = None
     /\ search.value # None
          => \A i \in 1..Len(search.value.list) :
               [postal_code |-> search.value.list[i].postal_code,
                address |-> search.value.list[i].full_address]
                 \in SampleEntries(FirstNameIn(search.address))

\* 千葉県 新宿 was searched: 新宿 occurs in an entry of the 東京都 table, and None
\* was returned
C17_Witness ==
  /\ SampleSearched
  /\ FirstNameIn(search.address) = <<"u5343", "u8449", "u770c">>
  /\ \E e \in SampleEntries(<<"u6771", "u4eac", "u90fd">>) :
       contains(e.address, <<"u65b0", "u5bbf">>)
  /\ contains(search.address, <<"u65b0", "u5bbf">>)
  /\ search.value = None

\* where a name starts in the address (from 1), for a name that occurs in it
StartOf(name, address) ==
  CHOOSE k \in 1..Len(address) :
    /\ k + Len(name) - 1 <= Len(address)
    /\ SubSeq(address, k, k + Len(name) - 1) = name
    /\ \A m \in 1..(k - 1) : SubSeq(address, m, m + Len(name) - 1) # name

(***************************************************************************)
(* C20: prefecture extraction returns the first name, in the order of the  *)
(* 47-entry list, that occurs anywhere in the address (not the longest,    *)
(* not the leftmost), and no prefecture when none occurs; in both          *)
(* variants.                                                               *)
(***************************************************************************)
C20_FirstNameInListOrder ==
  calc.op = "extract"
  => /\ NamesIn(calc.address) = {}
          => (calc.sample = <<>> /\ calc.api.prefecture = <<>>)
     /\ NamesIn(calc.address) # {}
          => /\ calc.sample = FirstNameIn(calc.address)
             /\ calc.api.prefecture = FirstNameIn(calc.address)

\* an address in which a longer name stands to the left of the name that comes
\* first in the list, and the latter was returned
C20_Witness ==
  /\ calc.op = "extract"
  /\ \E j \in NamesIn(calc.address) :
       /\ Len(prefectures[j]) > Len(calc.sample)
       /\ StartOf(prefectures[j], calc.address) < StartOf(calc.sample, calc.address)
  /\ calc.sample = FirstNameIn(calc.address)
  /\ calc.api.prefecture = calc.sample

\* 市, 区, 町, 村
SuffixChars == {"u5e02", "u533a", "u753a", "u6751"}

\* the text after the first occurrence of the detected prefecture, stripped
TextAfterPrefecture(address) ==
  strip(SubSeq(address,
               StartOf(FirstNameIn(address), address) + Len(FirstNameIn(address)),
               Len(address)))

\* the first whitespace-delimited token of a text that starts with none
FirstToken(text) ==
  LET spaces == {k \in 1..Len(text) : text[k] \in WhitespaceChars}
  IN  IF spaces = {} THEN text
      ELSE SubSeq(text, 1, (CHOOSE k \in spaces : \A m \in spaces : k <= m) - 1)

(***************************************************************************)
(* C21: when a prefecture is found, the city returned is the text after    *)
(* the prefecture up to and including the leftmost occurrence of any of    *)
(* 市, 区, 町, 村; when none of them occurs it is the first                   *)
(* whitespace-delimited token of the remaining text or a 6-character       *)
(* prefix of it.                                                           *)
(***************************************************************************)
C21_CityUpToLeftmostSuffix ==
  (calc.op = "extract" /\ NamesIn(calc.address) # {})
  => LET rest == TextAfterPrefecture(calc.address)
         ends == {k \in 1..Len(rest) : rest[k] \in SuffixChars}
     IN  /\ ends # {}
              => calc.api.city
                   = SubSeq(rest, 1, CHOOSE k \in ends : \A m \in ends : k <= m)
         /\ (ends = {} /\ rest # <<>>)
              => \/ calc.api.city = FirstToken(rest)
                 \/ calc.api.city = SubSeq(rest, 1, Min({6, Len(rest)}))

(***************************************************************************)
(* C22: every candidate of _get_postal_patterns_extended, in both variants *)
(* and for a locality of the table as for the hash fallback, is a string   *)
(* of exactly 7 decimal digits, and the fallback prefix hash % 900 + 100   *)
(* lies in 100..999 for every hash value.                                  *)
(***************************************************************************)
C22_SevenDigitCandidates ==
  calc.op = "pattern"
  => /\ Len(calc.pattern) = 7
     /\ \A k \in 1..Len(calc.pattern) : calc.pattern[k] \in AsciiDigits
     /\ (calc.h % 900) + 100 >= 100
     /\ (calc.h % 900) + 100 <= 999

(***************************************************************************)
(* C23: every candidate scan (_search_with_zipcloud_reverse in both        *)
(* variants, _search_with_heartrails_api of postal_data_backup.py) issues  *)
(* at most 50 probes, and a scan that has begun ends with the search       *)
(* returning a list or None, whatever the address and the answers.         *)
(***************************************************************************)
C23_ScanBoundedAndEnds ==
  /\ [](search.probes <= 50)
  /\ (search.pc = "scan")
       ~> (search.pc = "done" /\ (search.value = None \/ "list" \in DOMAIN search.value))

\* the second scan of the backup variant has ended after all of its 50 probes,
\* the first scan having ended without a candidate
C23_Witness ==
  /\ search.pc = "done"
  /\ search.variant = "backup"
  /\ search.scan = "zipcloud"
  /\ search.probes = 50

(***************************************************************************)
(* C24: a candidate scan stops early: once 10 candidates are retained, no  *)
(* further candidate is probed, in _search_with_heartrails_api of          *)
(* postal_data_backup.py as in _search_with_zipcloud_reverse of both       *)
(* variants.                                                               *)
(***************************************************************************)
C24_StopsAtTenRetained ==
  [][(search.pc = "scan" /\ Len(search.results) >= 10) => ~(Probe \/ ProbeBackup)]_vars

\* the search has returned the list of a scan by _search_with_zipcloud_reverse
ScanReturnedList == ReturnedList /\ search.exit = "zipcloud"

TransportFailedProbe ==
  /\ search.pc = "scan"
  /\ search'.probes = search.probes + 1
  /\ search'.last_probe = "transport"

(***************************************************************************)
(* C26: a probe that fails with a timeout or another transport error       *)
(* counts as no match for its candidate: nothing is added to or taken from *)
(* the retained candidates, and the scan goes on with the next candidate;  *)
(* when the failed probe was the last one, the candidates retained by the  *)
(* other probes are returned.                                              *)
(***************************************************************************)
C26_FailedProbeIsNoMatch ==
  [][TransportFailedProbe
       => /\ search'.results = search.results
          /\ \/ search'.pc = "scan"
             \/ /\ search'.pc = "done"
                /\ search.results = <<>> => search'.value = None
                /\ search.results # <<>>
                     => /\ "list" \in DOMAIN search'.value
                        /\ Len(search'.value.list) = Min({10, Len(search.results)})
                        /\ \A j \in 1..Len(search'.value.list) :
                             \E k \in 1..Len(search.results) :
                               search'.value.list[j] = search.results[k]]_vars

\* the last probe of a scan ran into a transport error, and the candidates of
\* the probes before it are returned
C26_Witness ==
  /\ search.pc = "done"
  /\ search.last_probe = "transport"
  /\ search.probes = 50
  /\ "list" \in DOMAIN search.value
  /\ search.value.list # <<>>

\* a text without its spaces and full-width spaces
WithoutSpaces(s) == SelectSeq(s, LAMBDA c : c \notin {" ", "u3000"})

\* one of two texts properly contains the other
ProperlyContains(a, b) == a # b /\ (contains(a, b) \/ contains(b, a))

(***************************************************************************)
(* C27: for a non-empty query and target of which, spaces removed, neither *)
(* equals nor contains the other, the strict scorer returns 0.1 if the     *)
(* prefectures differ, else 0.2 if the cities differ, else 0.85 if the     *)
(* areas are equal, else 0.75 if both areas are non-empty and one contains *)
(* the other, else 0.3.                                                    *)
(***************************************************************************)
C27_StrictTiers ==
  (/\ calc.op = "strict"
   /\ calc.query # <<>>
   /\ calc.target # <<>>
   /\ WithoutSpaces(calc.query) # WithoutSpaces(calc.target)
   /\ ~ProperlyContains(WithoutSpaces(calc.query), WithoutSpaces(calc.target)))
  => LET q == extract_address_components(WithoutSpaces(calc.query))
         t == extract_address_components(WithoutSpaces(calc.target))
     IN  calc.score =
           IF q.prefecture # t.prefecture THEN [num |-> 1, den |-> 10]
           ELSE IF q.city # t.city THEN [num |-> 2, den |-> 10]
           ELSE IF q.area = t.area THEN [num |-> 85, den |-> 100]
           ELSE IF q.area # <<>> /\ t.area # <<>> /\ ProperlyContains(q.area, t.area)
             THEN [num |-> 75, den |-> 100]
           ELSE [num |-> 3, den |-> 10]

(***************************************************************************)
(* C28: in the API variant a search of an address of at least two          *)
(* characters asks HeartRails first.  The zipcloud scan starts only if     *)
(* HeartRails yielded no candidate (it failed, answered with a status      *)
(* other than 200, with no location, or with no postal code in the         *)
(* locations read); when HeartRails yields a candidate, its candidates are *)
(* returned and no zipcloud probe is issued.                               *)
(***************************************************************************)
C28_HeartRailsBeforeScan ==
  (search.variant = "api" /\ search.exit # "too_short")
  => /\ search.heartrails = 1
     /\ search.msgs # <<>> /\ search.msgs[1] = "info_heartrails"
     /\ (search.pc = "scan" \/ search.probes > 0 \/ search.scan = "zipcloud")
          => search.hr_postal = 0
     /\ search.hr_postal > 0
          => /\ search.pc = "done"
             /\ search.probes = 0
             /\ "list" \in DOMAIN search.value
             /\ Len(search.value.list) = search.hr_postal
             /\ \A j \in 1..Len(search.value.list) :
                  search.value.list[j].source = "HeartRails Geo API"

\* HeartRails yielded candidates and the search returned them without a probe
C28_Witness ==
  /\ search.variant = "api"
  /\ search.hr_postal > 1
  /\ search.pc = "done"
  /\ search.probes = 0
  /\ "list" \in DOMAIN search.value

(***************************************************************************)
(* C29: get_address_by_postal_code is memoized per exact input string,     *)
(* failures included.  The first call with an input stores what it         *)
(* returned, be it a record or None; until the cache is cleared the entry  *)
(* stays as it is, and every later call with the identical input sends no  *)
(* request and returns the stored value.                                   *)
(***************************************************************************)
C29_MemoizedPerInput ==
  [][cache' # <<>>
       => LET s == last'.input
          IN  /\ last'.op = "lookup"
              /\ s \in DOMAIN cache
                   => /\ last'.hit
                      /\ last'.sent = <<>>
                      /\ last'.value = cache[s].value
                      /\ cache' = cache
              /\ s \notin DOMAIN cache
                   => /\ s \in DOMAIN cache'
                      /\ cache'[s].value = last'.value
              /\ \A x \in DOMAIN cache :
                   x \in DOMAIN cache' /\ cache'[x] = cache[x]]_vars

\* a call answered from the cache with the None that a transport error of the
\* first call left there
C29_Witness ==
  /\ last.hit
  /\ last.sent = <<>>
  /\ last.value = None
  /\ last.input \in DOMAIN log
  /\ log[last.input].resp = TransportError

(***************************************************************************)
(* C30: the format check of the page and the format check of the service   *)
(* agree: whenever the page accepts an input as a well-formed 7-digit code *)
(* and calls the service, the service accepts it too and issues the        *)
(* lookup, so that "address not found" is never shown for an input whose   *)
(* format the service rejected.                                            *)
(***************************************************************************)
C30_PageAndServiceAgree ==
  last.called
  => /\ ~last.hit => last.sent # <<>>
     /\ (last.hit /\ last.input \in DOMAIN log) => log[last.input].sent # <<>>

====
